---- MODULE Spec2Model ----
(***************************************************************************)
(* A model of the adaptive focus-duration recommender of kairos: the       *)
(* contextual bandit (services/rl, services/contextualBandits.ts), the     *)
(* session completion service and the timer store that drives them.        *)
(*                                                                         *)
(* Numbers.  Durations are whole minutes.  alpha, beta, rewards and the    *)
(* zone confidence are fixed-point numbers in thousandths (1.0 = 1000).    *)
(* averageCapacity and completionRate are kept as exact fractions          *)
(* [num, den], so every comparison the code makes on them is exact.        *)
(***************************************************************************)
EXTENDS Integers, Sequences, FiniteSets, TLC

VARIABLES
    model,      \* AsyncStorage "contextual_bandits_model_v2": key -> arm -> [alpha, beta]
    zones,      \* AsyncStorage "contextual_bandits_zones": key -> ZoneData
    capacity,   \* AsyncStorage "contextual_bandits_capacity": key -> CapacityStats
    sessions,   \* number of rows of the session database
    rec,        \* the result of the last operation, with what it was called on
    nOps,       \* operations run so far (bounds the exploration)
    timer,      \* the timer store (zustand state) fields the save guard reads
    tasks,      \* the async calls in flight: id -> its position and locals
    hist        \* bookkeeping of the async specifications (what was invoked, and when)

vars == <<model, zones, capacity, sessions, rec, nOps, timer, tasks, hist>>

-----------------------------------------------------------------------------
(* Constants of the program *)

DEFAULT_ALPHA == 1000
DEFAULT_BETA == 1500
EARLY_EXPLORATION_THRESHOLD == 3
CAPACITY_HISTORY_LIMIT == 10
ZONE_HISTORY_LIMIT == 10
TRANSITION_WINDOW == 5
MIN_SESSION_FOR_SAVE == 60
SPILLOVER_THRESHOLD == 800
SPILLOVER_FACTOR == 300
REJECTION_PENALTY == -300

\* One unit (1.0) of the fixed-point numbers.
Unit == DEFAULT_ALPHA

\* The value the code computes as 0/0 (a NaN): kept apart from every number.
NaN == 0 - 1000000

\* Number.POSITIVE_INFINITY: above every number the model computes with; its
\* negation stands for Number.NEGATIVE_INFINITY.  Neither is a NaN to isNaN.
Infinity == 0 - (NaN + NaN)

ZONE_ACTIONS(zone) ==
    IF zone = "short" THEN {10, 15, 20, 25, 30}
    ELSE {25, 30, 35, 40, 45, 50, 55, 60}

\* const BREAK_ACTIONS = [5, 10, 15, 20]: the array, and its elements.
BREAK_ACTIONS_LIST == <<5, 10, 15, 20>>

BREAK_ACTIONS == {BREAK_ACTIONS_LIST[i] : i \in DOMAIN BREAK_ACTIONS_LIST}

energyHierarchy == <<"low", "mid", "high">>

REWARD_CONSTANTS ==
    [RECOMMENDATION_BONUS |-> 150,
     SKIPPED_FOCUS_BASE |-> 400,
     SKIPPED_BREAK_BASE |-> 300,
     SKIPPED_BREAK_MULTIPLIER |-> 300,
     COMPLETED_BASE |-> 700,
     COMPLETED_MULTIPLIER |-> 300,
     IDEAL_MAX_DURATION |-> 60,
     EXCESS_PENALTY_MULTIPLIER |-> 100]

-----------------------------------------------------------------------------
(* Arithmetic helpers *)

Min2(a, b) == IF a <= b THEN a ELSE b
Max2(a, b) == IF a >= b THEN a ELSE b

\* Math.min(...xs) and Math.max(...xs) of a non-empty collection.
MinOf(S) == CHOOSE x \in S : \A y \in S : x <= y
MaxOf(S) == CHOOSE x \in S : \A y \in S : x >= y

RECURSIVE SumSeq(_)
SumSeq(s) == IF s = <<>> THEN 0 ELSE Head(s) + SumSeq(Tail(s))

\* Mutation of LastN: the first n elements are kept.
FirstN(s, n) == IF Len(s) <= n THEN s ELSE SubSeq(s, 1, n)

\* Array.prototype.slice(-n): the last n elements (all of them when fewer).
LastN(s, n) ==
    IF Len(s) <= n THEN s ELSE SubSeq(s, Len(s) - n + 1, Len(s))

\* Math.round(x / 5) * 5 for x = num / den >= 0: halves round upward.
roundToNearest5(num, den) == ((2 * num + 5 * den) \div (10 * den)) * 5

\* Math.floor(seconds / 60).
secondsToMinutes(seconds) == seconds \div 60

-----------------------------------------------------------------------------
(* Context keys *)

createContextKey(taskType, energyLevel) == taskType \o "|" \o energyLevel

breakTaskType(taskType) == taskType \o "-break"

-----------------------------------------------------------------------------
(* Tables: the JSON objects the three storage keys hold *)

EmptyTable == [k \in {} |-> 0]

Put(t, k, v) == [x \in (DOMAIN t) \cup {k} |-> IF x = k THEN v ELSE t[x]]

\* loadModel / loadZones / loadCapacity: the stored image ({} when there is none).
loadTable(stored) == stored

\* Mutation of stringify: the text of an empty object.
stringifyEmpty(table) == {}

\* JSON.stringify of a table: the text lists its members, one key with its
\* value each.  The numbers the tables hold are finite (updateModel refuses a
\* NaN, the averages divide by a length of at least 1), and JSON keeps a
\* finite number as it is.
stringify(table) == {<<k, table[k]>> : k \in DOMAIN table}

\* JSON.parse of such a text: the object with the members listed.
parse(json) ==
    [k \in {member[1] : member \in json} |->
        (CHOOSE member \in json : member[1] = k)[2]]

\* saveModel / saveZones / saveCapacity: the image written replaces the stored
\* one, and what is stored is what its JSON text reads back as.
saveTable(stored, image) == parse(stringify(image))

-----------------------------------------------------------------------------
(* Zones *)

detectZone(selection, energyLevel) ==
    IF selection <= 25 THEN "short"
    ELSE IF selection >= 35 THEN "long"
    ELSE IF energyLevel = "low" THEN "short" ELSE "long"

\* Sorted, de-duplicated union of the zone's arms and the dynamic arms: as a set.
getZoneActions(zone, dynamicArms) == ZONE_ACTIONS(zone) \cup dynamicArms

\* Mutation of checkZoneTransition: the mean of the stored selections decides
\* from the first selection on.
checkZoneTransitionEager(zoneData) ==
    LET total == SumSeq(LastN(zoneData.selections, TRANSITION_WINDOW))
        n == Len(LastN(zoneData.selections, TRANSITION_WINDOW))
    IN  IF zoneData.zone = "short" /\ total >= 30 * n THEN "long"
        ELSE IF zoneData.zone = "long" /\ total <= 25 * n THEN "short"
        ELSE zoneData.zone

checkZoneTransition(zoneData) ==
    LET zone == zoneData.zone
        selections == zoneData.selections
        recentSelections == LastN(selections, TRANSITION_WINDOW)
        total == SumSeq(recentSelections)
        n == Len(recentSelections)
    IN  IF Len(selections) < TRANSITION_WINDOW THEN zone
        ELSE IF zone = "short" /\ total >= 30 * n THEN "long"
        ELSE IF zone = "long" /\ total <= 25 * n THEN "short"
        ELSE zone

NewZoneData(zone) ==
    [zone |-> zone, confidence |-> 0, selections |-> <<>>, transitionReady |-> FALSE]

\* getZoneData: the zones table after the call (a missing record is created
\* from the heuristic and saved); the record returned is the table's entry.
getZoneData(z, contextKey, energyLevel, heuristicDuration) ==
    IF contextKey \in DOMAIN z THEN z
    ELSE Put(z, contextKey, NewZoneData(detectZone(heuristicDuration, energyLevel)))

\* Mutation of zoneConfidence: full confidence only when the queue is full.
zoneConfidenceOfLimit(selections) ==
    Min2(Unit, (Len(selections) * Unit) \div ZONE_HISTORY_LIMIT)

zoneConfidence(selections) == Min2(Unit, (Len(selections) * Unit) \div 5)

updateZoneData(z, contextKey, selectedDuration) ==
    LET old == IF contextKey \in DOMAIN z THEN z[contextKey]
               ELSE NewZoneData(IF selectedDuration <= 30 THEN "short" ELSE "long")
        pushed == Append(old.selections, selectedDuration)
        trimmed == IF Len(pushed) > ZONE_HISTORY_LIMIT
                   THEN LastN(pushed, ZONE_HISTORY_LIMIT) ELSE pushed
        withSel == [old EXCEPT !.selections = trimmed,
                               !.confidence = zoneConfidence(trimmed)]
        newZone == checkZoneTransition(withSel)
        final == IF newZone # withSel.zone
                 THEN [withSel EXCEPT !.zone = newZone, !.transitionReady = FALSE]
                 ELSE withSel
    IN  Put(z, contextKey, final)

-----------------------------------------------------------------------------
(* Capacity *)

\* The scale of the ratios actual / selected of calculateTrend: every ratio of
\* the durations used here is a whole number of these units.
RatioScale == 2 * 2 * 2 * 3 * 3 * 5 * 5 * 7 * 11

RECURSIVE SumXY(_, _)
SumXY(ratios, x) ==
    IF ratios = <<>> THEN 0 ELSE x * Head(ratios) + SumXY(Tail(ratios), x + 1)

calculateTrend(recentSessions) ==
    IF Len(recentSessions) < 3 THEN "stable"
    ELSE
      LET recent == LastN(recentSessions, 5)
          ratios == [i \in 1..Len(recent) |->
                       (recent[i].actualFocusTime * RatioScale)
                          \div recent[i].selectedDuration]
          n == Len(ratios)
          sumX == (n * (n - 1)) \div 2
          sumY == SumSeq(ratios)
          sumXY == SumXY(ratios, 0)
          sumXX == (n * (n - 1) * (2 * n - 1)) \div 6
          num == n * sumXY - sumX * sumY
          den == n * sumXX - sumX * sumX
          \* slope = num / den (in RatioScale units); 0.05 is RatioScale / 20
      IN  IF num > den * (RatioScale \div 20) THEN "growing"
          ELSE IF num < 0 - den * (RatioScale \div 20) THEN "declining"
          ELSE "stable"

EmptyCapacityStats ==
    [recentSessions |-> <<>>,
     averageCapacity |-> [num |-> 0, den |-> 1],
     completionRate |-> [num |-> 0, den |-> 1],
     trend |-> "stable"]

getCapacityStats(c, contextKey) ==
    IF contextKey \in DOMAIN c THEN c[contextKey] ELSE EmptyCapacityStats

RECURSIVE SumActual(_)
SumActual(s) == IF s = <<>> THEN 0 ELSE Head(s).actualFocusTime + SumActual(Tail(s))

RECURSIVE CountCompleted(_)
CountCompleted(s) ==
    IF s = <<>> THEN 0
    ELSE (IF Head(s).completed THEN 1 ELSE 0) + CountCompleted(Tail(s))

updateCapacityStats(c, contextKey, selectedDuration, actualFocusTime, completed) ==
    LET stats == getCapacityStats(c, contextKey)
        pushed == Append(stats.recentSessions,
                         [selectedDuration |-> selectedDuration,
                          actualFocusTime |-> actualFocusTime,
                          completed |-> completed])
        trimmed == IF Len(pushed) > CAPACITY_HISTORY_LIMIT
                   THEN LastN(pushed, CAPACITY_HISTORY_LIMIT) ELSE pushed
    IN  Put(c, contextKey,
            [recentSessions |-> trimmed,
             averageCapacity |-> [num |-> SumActual(trimmed), den |-> Len(trimmed)],
             completionRate |-> [num |-> CountCompleted(trimmed), den |-> Len(trimmed)],
             trend |-> calculateTrend(trimmed)])

\* Mutation of stretchThreshold: 0.95 at every energy level.
stretchThresholdSame(energyLevel) == 95

\* completionRate >= 0.85 (high energy) or 0.95 (otherwise), in hundredths.
stretchThreshold(energyLevel) == IF energyLevel = "high" THEN 85 ELSE 95

adjustForCapacity(modelRec, stats, energyLevel) ==
    IF Len(stats.recentSessions) < 3 THEN modelRec
    ELSE IF 2 * stats.completionRate.num < stats.completionRate.den
         THEN Max2(10, roundToNearest5(stats.averageCapacity.num,
                                       stats.averageCapacity.den))
    ELSE IF energyLevel = "low" THEN modelRec
    ELSE IF /\ 100 * stats.completionRate.num
                  >= stretchThreshold(energyLevel) * stats.completionRate.den
            /\ stats.trend \in {"stable", "growing"}
         THEN modelRec + 5
    ELSE modelRec

-----------------------------------------------------------------------------
(* Sampler and posterior updates *)

DefaultParams == [alpha |-> DEFAULT_ALPHA, beta |-> DEFAULT_BETA]

RECURSIVE SumObservations(_, _)
SumObservations(arms, S) ==
    IF S = {} THEN 0
    ELSE LET a == CHOOSE x \in S : TRUE
         IN  (arms[a].alpha + arms[a].beta - DEFAULT_ALPHA - DEFAULT_BETA)
               + SumObservations(arms, S \ {a})

getTotalObservations(m, contextKey) ==
    IF contextKey \notin DOMAIN m THEN 0
    ELSE SumObservations(m[contextKey], DOMAIN m[contextKey])

\* getBestAction, its writes: every action to use gets the default parameters
\* when it has none (saved only when something was added: the table is the same
\* otherwise).
\* Mutation of materialisePriors: every action to use is set to the default
\* parameters.
materialisePriorsReset(m, contextKey, actionsToUse) ==
    LET old == IF contextKey \in DOMAIN m THEN m[contextKey] ELSE EmptyTable
    IN  Put(m, contextKey,
            [a \in (DOMAIN old) \cup actionsToUse |->
                IF a \in actionsToUse THEN DefaultParams ELSE old[a]])

materialisePriors(m, contextKey, actionsToUse) ==
    LET old == IF contextKey \in DOMAIN m THEN m[contextKey] ELSE EmptyTable
    IN  Put(m, contextKey,
            [a \in (DOMAIN old) \cup actionsToUse |->
                IF a \in DOMAIN old THEN old[a] ELSE DefaultParams])

needsSave(m, contextKey, actionsToUse) ==
    \/ contextKey \notin DOMAIN m
    \/ \E a \in actionsToUse : a \notin DOMAIN m[contextKey]

\* getBestAction, its choice.  Below the early-exploration threshold the arm is
\* drawn uniformly; above it the arm with the greatest Beta sample wins, and
\* every arm's sample can be the greatest: either way any arm can be returned.
sampledActions(m, contextKey, actionsToUse) ==
    IF getTotalObservations(m, contextKey) < EARLY_EXPLORATION_THRESHOLD * Unit
    THEN actionsToUse
    ELSE {a \in actionsToUse : \E sample \in {"greatest"} : TRUE}

\* Mutation of successWeight: the reward is added as it comes.
successWeightUnclamped(reward) == reward

successWeight(reward) == Max2(0, Min2(Unit, reward))

\* Mutation of failureWeight: a whole failure is added whatever the reward.
failureWeightWhole(reward) == Unit

\* Mutation of failureWeight: 1 - reward, of the reward as given.
failureWeightOfReward(reward) == Max2(0, Unit - reward)

failureWeight(reward) == Max2(0, Unit - successWeight(reward))

\* Mutation of updateModel: the context keeps the updated arm only.
updateModelAlone(m, contextKey, action, reward) ==
    IF reward = 0 \/ reward = NaN THEN m
    ELSE
      LET old == IF contextKey \in DOMAIN m /\ action \in DOMAIN m[contextKey]
                 THEN m[contextKey][action] ELSE DefaultParams
      IN  Put(m, contextKey,
              Put(EmptyTable, action,
                  [alpha |-> old.alpha + successWeight(reward),
                   beta |-> old.beta + failureWeight(reward)]))

updateModel(m, contextKey, action, reward) ==
    IF reward = 0 \/ reward = NaN THEN m
    ELSE
      LET ctx == IF contextKey \in DOMAIN m THEN m[contextKey] ELSE EmptyTable
          old == IF action \in DOMAIN ctx THEN ctx[action] ELSE DefaultParams
          new == [alpha |-> old.alpha + successWeight(reward),
                  beta |-> old.beta + failureWeight(reward)]
      IN  Put(m, contextKey, Put(ctx, action, new))

penalizeRejection(m, contextKey, rejectedAction) ==
    updateModel(m, contextKey, rejectedAction, REJECTION_PENALTY)

-----------------------------------------------------------------------------
(* The focus recommendation *)

\* Mutation of clampToActions: the value is returned as it is.
clampToActionsNone(actions, value) == value

\* Math.max(Math.min(...actions), Math.min(value, Math.max(...actions))).
clampToActions(actions, value) ==
    Max2(MinOf(actions), Min2(value, MaxOf(actions)))

\* The heuristic gate of getSmartRecommendation (services/rl/index.ts).
HEURISTIC_GATE == 1

useHeuristic(totalObs) == totalObs < HEURISTIC_GATE * Unit

\* meanArm > meanBest, on alpha / (alpha + beta), cross-multiplied.
meanGreater(p, q) == p.alpha * q.beta > q.alpha * p.beta

\* lowerArms.reduce(...): the keys come in ascending order, and an arm replaces
\* the best one only when its mean is strictly greater.
RECURSIVE reduceBest(_, _, _)
reduceBest(lowerModel, best, rest) ==
    IF rest = {} THEN best
    ELSE LET arm == MinOf(rest)
         IN  reduceBest(lowerModel,
                        IF meanGreater(lowerModel[arm], lowerModel[best])
                        THEN arm ELSE best,
                        rest \ {arm})

bestLowerArm(lowerModel) ==
    LET first == MinOf(DOMAIN lowerModel)
    IN  reduceBest(lowerModel, first, (DOMAIN lowerModel) \ {first})

energyIndex(energyLevel) ==
    IF \E i \in 1..3 : energyHierarchy[i] = energyLevel
    THEN CHOOSE i \in 1..3 : energyHierarchy[i] = energyLevel
    ELSE 0

\* The loop for (i = currentIdx - 1; i >= 0; i--) of the cross-energy floor.
RECURSIVE crossEnergyFloor(_, _, _, _)
crossEnergyFloor(m, taskType, i, floored) ==
    IF i < 1 THEN floored
    ELSE
      LET lowerKey == taskType \o "|" \o energyHierarchy[i]
          raised ==
            IF lowerKey \in DOMAIN m /\ DOMAIN m[lowerKey] # {}
               /\ bestLowerArm(m[lowerKey]) > floored
            THEN bestLowerArm(m[lowerKey]) ELSE floored
      IN  crossEnergyFloor(m, taskType, i - 1, raised)

\* Mutation of recommendationSource: the capacity step is not looked at.
recommendationSourceByCount(capacityAdjusted, modelRec, totalObs) ==
    IF totalObs >= 5 * Unit THEN "learned" ELSE "blended"

recommendationSource(capacityAdjusted, modelRec, totalObs) ==
    IF capacityAdjusted # modelRec THEN "capacity"
    ELSE IF totalObs >= 5 * Unit THEN "learned"
    ELSE "blended"

\* What getSmartRecommendation computes from what it has read: zoneData and
\* stats from its first two reads, m from its loadModel and mBest from the
\* loadModel of getBestAction.  One result per arm the sampler can return.
recommendationResults(m, mBest, zoneData, stats, taskType, energyLevel, heuristic, dynamicArms) ==
    LET contextKey == createContextKey(taskType, energyLevel)
        actions == getZoneActions(zoneData.zone, dynamicArms)
        totalObs == getTotalObservations(m, contextKey)
        base == [contextKey |-> contextKey, taskType |-> taskType,
                 energyLevel |-> energyLevel, heuristic |-> heuristic,
                 actions |-> actions, totalObs |-> totalObs]
    IN  IF useHeuristic(totalObs)
        THEN {[call |-> base, value |-> clampToActions(actions, heuristic),
               source |-> "heuristic", modelRec |-> 0, capacityAdjusted |-> 0,
               floored |-> 0]}
        ELSE
          LET m1 == materialisePriors(mBest, contextKey, actions)
          IN  {LET capacityAdjusted == adjustForCapacity(modelRec, stats, energyLevel)
                   floored == crossEnergyFloor(m, taskType,
                                  energyIndex(energyLevel) - 1, capacityAdjusted)
               IN  [call |-> base, value |-> clampToActions(actions, floored),
                    source |-> recommendationSource(capacityAdjusted, modelRec, totalObs),
                    modelRec |-> modelRec, capacityAdjusted |-> capacityAdjusted,
                    floored |-> floored]
               : modelRec \in sampledActions(m1, contextKey, actions)}

\* getSmartRecommendation run to completion on the tables (m, z, c): the set
\* of its possible outcomes.  An outcome holds the result {value, source} and
\* the tables after the call.
getSmartRecommendation(m, z, c, taskType, energyLevel, heuristic, dynamicArms) ==
    LET contextKey == createContextKey(taskType, energyLevel)
        z1 == getZoneData(z, contextKey, energyLevel, heuristic)
        stats == getCapacityStats(c, contextKey)
        actions == getZoneActions(z1[contextKey].zone, dynamicArms)
        sampling == ~useHeuristic(getTotalObservations(m, contextKey))
        m1 == IF sampling /\ needsSave(m, contextKey, actions)
              THEN materialisePriors(m, contextKey, actions) ELSE m
        z2 == IF sampling THEN getZoneData(z1, contextKey, energyLevel, 25) ELSE z1
    IN  {[call |-> r.call, value |-> r.value, source |-> r.source,
          modelRec |-> r.modelRec, capacityAdjusted |-> r.capacityAdjusted,
          floored |-> r.floored, model |-> m1, zones |-> z2]
         : r \in recommendationResults(m, m, z1[contextKey], stats, taskType,
                                       energyLevel, heuristic, dynamicArms)}

-----------------------------------------------------------------------------
(* The break recommendation *)

\* Mutation of getBreakActionsList: every break arm is permitted.
getBreakActionsListAll(focusDuration) == BREAK_ACTIONS_LIST

\* BREAK_ACTIONS.filter((action) => action <= maxBreak): the array returned.
getBreakActionsList(focusDuration) ==
    LET maxBreak == Max2(5, focusDuration \div 3)
        permitted(action) == action <= maxBreak
    IN  SelectSeq(BREAK_ACTIONS_LIST, permitted)

\* The elements of the array getBreakActionsForFocus returns.
getBreakActionsForFocus(focusDuration) ==
    {getBreakActionsList(focusDuration)[i]
        : i \in DOMAIN getBreakActionsList(focusDuration)}

\* Mutation of getSmartBreakRecommendation: the heuristic break is returned as
\* given, without the clamp to the largest available break.
getSmartBreakRecommendationUnclamped(m, z, taskType, energyLevel, baseBreak, focusDuration) ==
    LET contextKey == createContextKey(breakTaskType(taskType), energyLevel)
        availableBreaks == getBreakActionsForFocus(focusDuration)
    IN  IF getTotalObservations(m, contextKey) < 2 * Unit
        THEN {[value |-> baseBreak, source |-> "heuristic", model |-> m, zones |-> z]}
        ELSE {[value |-> best, source |-> "learned",
               model |-> materialisePriors(m, contextKey, availableBreaks),
               zones |-> getZoneData(z, contextKey, energyLevel, 25)]
               : best \in sampledActions(materialisePriors(m, contextKey, availableBreaks),
                                         contextKey, availableBreaks)}

getSmartBreakRecommendation(m, z, taskType, energyLevel, baseBreak, focusDuration) ==
    LET breakTask == breakTaskType(taskType)
        contextKey == createContextKey(breakTask, energyLevel)
        availableBreaks == getBreakActionsForFocus(focusDuration)
        clampedBase == Min2(baseBreak, MaxOf(availableBreaks))
        totalObs == getTotalObservations(m, contextKey)
    IN  IF totalObs < 2 * Unit
        THEN {[value |-> clampedBase, source |-> "heuristic", model |-> m, zones |-> z]}
        ELSE
          LET z1 == getZoneData(z, contextKey, energyLevel, 25)
              m1 == IF needsSave(m, contextKey, availableBreaks)
                    THEN materialisePriors(m, contextKey, availableBreaks) ELSE m
          IN  {[value |-> best, source |-> "learned", model |-> m1, zones |-> z1]
               : best \in sampledActions(m1, contextKey, availableBreaks)}

-----------------------------------------------------------------------------
(* Reward *)

\* mult * min(1, focused / target), in thousandths (rounded down).
ratioTimes(mult, focused, target) ==
    IF target = 0 THEN (IF focused = 0 THEN NaN ELSE mult)
    ELSE IF focused >= target THEN mult
    ELSE (mult * focused) \div target

calculateReward(sessionCompleted, acceptedRecommendation, focusedUntilSkipped, userSelectedDuration, recommendedDuration, skipReason) ==
    LET K == REWARD_CONSTANTS
        targetDuration == IF acceptedRecommendation THEN recommendedDuration
                          ELSE userSelectedDuration
        bonus == IF acceptedRecommendation THEN K.RECOMMENDATION_BONUS ELSE 0
        part(mult) == ratioTimes(mult, focusedUntilSkipped, targetDuration)
        reward ==
            IF skipReason = "skippedFocus"
            THEN (IF part(K.SKIPPED_FOCUS_BASE) = NaN THEN NaN
                  ELSE part(K.SKIPPED_FOCUS_BASE) + bonus)
            ELSE IF skipReason = "skippedBreak"
            THEN (IF part(K.SKIPPED_BREAK_MULTIPLIER) = NaN THEN NaN
                  ELSE K.SKIPPED_BREAK_BASE + part(K.SKIPPED_BREAK_MULTIPLIER) + bonus)
            ELSE IF sessionCompleted
            THEN (IF part(K.COMPLETED_MULTIPLIER) = NaN THEN NaN
                  ELSE K.COMPLETED_BASE + part(K.COMPLETED_MULTIPLIER) + bonus)
            ELSE 0
        excessPenalty ==
            IF targetDuration > K.IDEAL_MAX_DURATION
            THEN Min2(K.EXCESS_PENALTY_MULTIPLIER,
                      (K.EXCESS_PENALTY_MULTIPLIER
                          * (targetDuration - K.IDEAL_MAX_DURATION))
                        \div K.IDEAL_MAX_DURATION)
            ELSE 0
    IN  IF reward = NaN THEN NaN
        ELSE Min2(Unit, Max2(0, reward - excessPenalty))

\* applyCapacityScaling(baseReward, focusMinutes, averageCapacity): the reward
\* is scaled toward the recent capacity when one is known.  The possible
\* results: the reward as it is, or scaled down.
applyCapacityScaling(baseReward, focusMinutes, averageCapacity) ==
    IF averageCapacity.num = 0 \/ baseReward = NaN THEN {baseReward}
    ELSE {baseReward, (3 * baseReward) \div 4}

-----------------------------------------------------------------------------
(* completeSession *)

createFocusContextKey(taskType, energyLevel) == createContextKey(taskType, energyLevel)

\* Mutation of createBreakContextKey: the break arm is filed under the focus
\* context.
createBreakContextKeyPlain(taskType, energyLevel) ==
    createContextKey(taskType, energyLevel)

createBreakContextKey(taskType, energyLevel) ==
    createContextKey(breakTaskType(taskType), energyLevel)

\* Mutation of tooShortToSave: no outcome is dropped.
tooShortNever(p) == FALSE

\* if (type !== "completed" && focusedTime < MIN_SESSION_FOR_SAVE) return;
tooShortToSave(p) == p.type # "completed" /\ p.focusedTime < MIN_SESSION_FOR_SAVE

skipReasonOf(type) ==
    IF type = "skippedFocus" THEN "skippedFocus"
    ELSE IF type = "skippedBreak" THEN "skippedBreak" ELSE "none"

baseRewardOf(p) ==
    calculateReward(p.type = "completed", p.userAcceptedRecommendation,
                    secondsToMinutes(p.focusedTime),
                    secondsToMinutes(p.originalFocusDuration),
                    p.recommendedFocusDuration, skipReasonOf(p.type))

\* The rewards completeSession can end with (scaled for a completed session).
rewardsOf(p, c) ==
    IF p.type = "completed"
    THEN applyCapacityScaling(baseRewardOf(p), secondsToMinutes(p.focusedTime),
             getCapacityStats(c, p.taskType \o "|" \o p.energyLevel).averageCapacity)
    ELSE {baseRewardOf(p)}

\* zoneActions.find((a) => a > focusTimeInMinutes): 0 when there is none.
nextArmAbove(zoneActions, focusTimeInMinutes) ==
    IF \E a \in zoneActions : a > focusTimeInMinutes
    THEN MinOf({a \in zoneActions : a > focusTimeInMinutes})
    ELSE 0

spilloverReward(reward) == (reward * SPILLOVER_FACTOR) \div Unit

\* The upward spillover of a completed session, on the model table.
spillover(m, z, p, reward) ==
    LET contextKey == p.taskType \o "|" \o p.energyLevel
        focusTimeInMinutes == secondsToMinutes(p.focusedTime)
        nextArm == nextArmAbove(getZoneActions(z[contextKey].zone, {}),
                                focusTimeInMinutes)
    IN  IF reward # NaN /\ reward >= SPILLOVER_THRESHOLD /\ nextArm # 0
        THEN updateModel(m, createFocusContextKey(p.taskType, p.energyLevel),
                         nextArm, spilloverReward(reward))
        ELSE m

\* Mutation of completeSession: the session is counted and nothing is learned.
completeSessionQuiet(m, z, c, n, p, reward) ==
    [model |-> m, zones |-> z, capacity |-> c, sessions |-> n + 1]

\* completeSession run to completion on the tables, with the reward it ended
\* with: the tables after it.
completeSession(m, z, c, n, p, reward) ==
    LET contextKey == p.taskType \o "|" \o p.energyLevel
        focusKey == createFocusContextKey(p.taskType, p.energyLevel)
        breakKey == createBreakContextKey(p.taskType, p.energyLevel)
        focusTimeInMinutes == secondsToMinutes(p.focusedTime)
        totalFocusDuration == secondsToMinutes(p.originalFocusDuration)
        breakTimeInMinutes == secondsToMinutes(p.selectedBreakDuration)
    IN  IF tooShortToSave(p)
        THEN [model |-> m, zones |-> z, capacity |-> c, sessions |-> n]
        ELSE IF p.type = "completed"
        THEN LET m1 == updateModel(m, focusKey, focusTimeInMinutes, reward)
                 m2 == updateModel(m1, breakKey, breakTimeInMinutes, reward)
                 c1 == updateCapacityStats(c, contextKey, focusTimeInMinutes,
                                           focusTimeInMinutes, TRUE)
                 z1 == updateZoneData(z, contextKey, focusTimeInMinutes)
                 z2 == IF reward # NaN /\ reward >= SPILLOVER_THRESHOLD
                       THEN getZoneData(z1, contextKey, p.energyLevel, focusTimeInMinutes)
                       ELSE z1
             IN  [model |-> spillover(m2, z2, p, reward), zones |-> z2,
                  capacity |-> c1, sessions |-> n + 1]
        ELSE IF p.type = "skippedFocus"
        THEN [model |-> m, zones |-> z,
              capacity |-> updateCapacityStats(c, contextKey, totalFocusDuration,
                                               focusTimeInMinutes, FALSE),
              sessions |-> n + 1]
        ELSE LET m1 == updateModel(m, focusKey, focusTimeInMinutes, reward)
                 m2 == updateModel(m1, breakKey, 0, reward)
             IN  [model |-> m2, zones |-> z, capacity |-> c, sessions |-> n + 1]

-----------------------------------------------------------------------------
(* Clear all data, export and import *)

\* deleteAllSessions: the session database is emptied.
deleteAllSessions(n) == 0

\* clearAllSessions -> clearAllSessionsFromDB -> deleteAllSessions: nothing
\* else is called, the three tables stay as they are.
clearAllSessions(m, z, c, n) ==
    [model |-> m, zones |-> z, capacity |-> c, sessions |-> deleteAllSessions(n)]

exportRLState(m, z, c) ==
    [hasModel |-> TRUE, model |-> loadTable(m),
     hasZones |-> TRUE, zones |-> loadTable(z),
     hasCapacity |-> TRUE, capacity |-> loadTable(c)]

\* if (data.model) await saveModel(data.model): a table the blob lacks is
\* not written.
importModel(m, data) == IF data.hasModel THEN saveTable(m, data.model) ELSE m
importZones(z, data) == IF data.hasZones THEN saveTable(z, data.zones) ELSE z
importCapacity(c, data) ==
    IF data.hasCapacity THEN saveTable(c, data.capacity) ELSE c

-----------------------------------------------------------------------------
(* Bounds and input sets *)

\* Operations run after the initial state.
MaxOps == 2

TaskTypes == {"coding"}
EnergyLevels == {"low", "mid", "high"}
CompletionTypes == {"completed", "skippedFocus", "skippedBreak"}

\* Heuristic focus minutes (getRecommendations) and dynamic-arm lists.
Heuristics == {25, 35}
DynamicArmLists == {{}, {45}}

\* Minutes the user starts a focus session with, and what a session carries.
SelectedMinutes == {25, 40}
RecommendedMinutes == {25}
BreakSeconds == {300}
\* Seconds focused when the focus is skipped: below and above the minimum.
SkippedSeconds == {30, 600}

\* What the timer store passes to completeSession: a completed session and a
\* skipped break carry the whole focus duration as focusedTime, and a skipped
\* break carries a break of 0.
OutcomeParams ==
    {p \in [type : CompletionTypes, taskType : TaskTypes, energyLevel : EnergyLevels,
            recommendedFocusDuration : RecommendedMinutes,
            userAcceptedRecommendation : BOOLEAN,
            originalFocusDuration : {60 * m : m \in SelectedMinutes},
            selectedBreakDuration : BreakSeconds \cup {0},
            focusedTime : SkippedSeconds \cup {60 * m : m \in SelectedMinutes}] :
        /\ p.type \in {"completed", "skippedBreak"}
              => p.focusedTime = p.originalFocusDuration
        /\ p.type = "skippedFocus" => p.focusedTime \in SkippedSeconds
        /\ p.type = "skippedBreak" <=> p.selectedBreakDuration = 0}

\* Backups importRLState is given: each table present or missing.
SampleModel ==
    Put(EmptyTable, "coding|mid",
        Put(EmptyTable, 30, [alpha |-> 3 * Unit, beta |-> DEFAULT_BETA]))
SampleZones == Put(EmptyTable, "coding|mid", NewZoneData("long"))
SampleCapacity == updateCapacityStats(EmptyTable, "coding|mid", 30, 30, TRUE)

Backups ==
    [hasModel : BOOLEAN, model : {SampleModel},
     hasZones : BOOLEAN, zones : {SampleZones},
     hasCapacity : BOOLEAN, capacity : {SampleCapacity}]

-----------------------------------------------------------------------------
(* Initial states: what the storage can hold when the app starts.  Each is   *)
(* the empty storage or the storage after a history of recorded sessions.   *)

Outcome(type, energyLevel, selected, focusedSeconds) ==
    [type |-> type, taskType |-> "coding", energyLevel |-> energyLevel,
     recommendedFocusDuration |-> 25, userAcceptedRecommendation |-> FALSE,
     originalFocusDuration |-> 60 * selected,
     selectedBreakDuration |-> IF type = "skippedBreak" THEN 0 ELSE 300,
     focusedTime |-> focusedSeconds]

Histories ==
    {<<>>,
     \* three skipped focus sessions, then one full session: struggling
     <<Outcome("skippedFocus", "mid", 40, 600), Outcome("skippedFocus", "mid", 40, 600),
       Outcome("skippedFocus", "mid", 40, 600), Outcome("completed", "mid", 25, 1500)>>,
     \* three full sessions at high energy: the stretch goal applies
     <<Outcome("completed", "high", 25, 1500), Outcome("completed", "high", 25, 1500),
       Outcome("completed", "high", 25, 1500)>>,
     \* ten skipped focus sessions of 40 selected minutes, 10 focused
     <<Outcome("skippedFocus", "mid", 40, 600), Outcome("skippedFocus", "mid", 40, 600),
       Outcome("skippedFocus", "mid", 40, 600), Outcome("skippedFocus", "mid", 40, 600),
       Outcome("skippedFocus", "mid", 40, 600), Outcome("skippedFocus", "mid", 40, 600),
       Outcome("skippedFocus", "mid", 40, 600), Outcome("skippedFocus", "mid", 40, 600),
       Outcome("skippedFocus", "mid", 40, 600), Outcome("skippedFocus", "mid", 40, 600)>>,
     \* 40 minutes proven at low energy, two full sessions at high energy
     <<Outcome("completed", "low", 40, 2400), Outcome("completed", "low", 40, 2400),
       Outcome("completed", "high", 25, 1500), Outcome("skippedBreak", "high", 25, 1500)>>,
     \* three full sessions at low energy: more than 5 observations, no stretch
     <<Outcome("completed", "low", 25, 1500), Outcome("completed", "low", 25, 1500),
       Outcome("completed", "low", 25, 1500)>>}

StorageState == [model |-> EmptyTable, zones |-> EmptyTable,
                 capacity |-> EmptyTable, sessions |-> 0]

\* The storage after the sessions of a history, each run to completion with
\* its unscaled reward.
RECURSIVE AfterHistory(_, _)
AfterHistory(st, h) ==
    IF h = <<>> THEN st
    ELSE AfterHistory(completeSession(st.model, st.zones, st.capacity, st.sessions,
                                      Head(h), baseRewardOf(Head(h))),
                      Tail(h))

NoResult == [op |-> "init", arg |-> <<>>, out |-> <<>>]

\* The timer store as created: no timer runs, nothing was saved.  saves and
\* guarded count, for the current timer run, the calls of completeSession and
\* whether the save-once guard has turned a call away.
IdleTimer ==
    [isActive |-> FALSE, isBreakTime |-> FALSE, hasSavedSession |-> FALSE,
     sessionStartTimestamp |-> FALSE, saves |-> 0, guarded |-> FALSE]

Init ==
    /\ \E h \in Histories :
          /\ \A i \in 1..Len(h) : h[i] \in OutcomeParams
          /\ LET st == AfterHistory(StorageState, h)
             IN  /\ model = st.model
                 /\ zones = st.zones
                 /\ capacity = st.capacity
                 /\ sessions = st.sessions
    /\ rec = NoResult
    /\ nOps = 0
    /\ timer = IdleTimer
    /\ tasks = EmptyTable
    /\ hist = <<>>

-----------------------------------------------------------------------------
(* Operations run one after another, each to completion *)

RecommendFocus ==
    /\ nOps < MaxOps
    /\ \E t \in TaskTypes, e \in EnergyLevels, h \in Heuristics, d \in DynamicArmLists :
         \E o \in getSmartRecommendation(model, zones, capacity, t, e, h, d) :
            /\ model' = o.model
            /\ zones' = o.zones
            /\ rec' = [op |-> "recommendFocus",
                       arg |-> [taskType |-> t, energyLevel |-> e, heuristic |-> h,
                                dynamicArms |-> d],
                       out |-> [value |-> o.value, source |-> o.source,
                                actions |-> o.call.actions, totalObs |-> o.call.totalObs,
                                modelRec |-> o.modelRec,
                                capacityAdjusted |-> o.capacityAdjusted,
                                floored |-> o.floored]]
    /\ nOps' = nOps + 1
    /\ UNCHANGED <<capacity, sessions, timer, tasks, hist>>

RecommendBreak ==
    /\ nOps < MaxOps
    /\ \E t \in TaskTypes, e \in EnergyLevels, b \in BREAK_ACTIONS, f \in SelectedMinutes :
         \E o \in getSmartBreakRecommendation(model, zones, t, e, b, f) :
            /\ model' = o.model
            /\ zones' = o.zones
            /\ rec' = [op |-> "recommendBreak",
                       arg |-> [taskType |-> t, energyLevel |-> e, baseBreak |-> b,
                                focusDuration |-> f],
                       out |-> [value |-> o.value, source |-> o.source]]
    /\ nOps' = nOps + 1
    /\ UNCHANGED <<capacity, sessions, timer, tasks, hist>>

CompleteSession ==
    /\ nOps < MaxOps
    /\ \E p \in OutcomeParams :
         \E reward \in rewardsOf(p, capacity) :
            LET st == completeSession(model, zones, capacity, sessions, p, reward)
            IN  /\ model' = st.model
                /\ zones' = st.zones
                /\ capacity' = st.capacity
                /\ sessions' = st.sessions
                /\ rec' = [op |-> "completeSession", arg |-> p,
                           out |-> [reward |-> reward]]
    /\ nOps' = nOps + 1
    /\ UNCHANGED <<timer, tasks, hist>>

PenalizeRejection ==
    /\ nOps < MaxOps
    /\ \E t \in TaskTypes, e \in EnergyLevels, a \in SelectedMinutes :
          /\ model' = penalizeRejection(model, createContextKey(t, e), a)
          /\ rec' = [op |-> "penalizeRejection",
                     arg |-> [taskType |-> t, energyLevel |-> e, action |-> a],
                     out |-> <<>>]
    /\ nOps' = nOps + 1
    /\ UNCHANGED <<zones, capacity, sessions, timer, tasks, hist>>

ClearAllSessions ==
    /\ nOps < MaxOps
    /\ LET st == clearAllSessions(model, zones, capacity, sessions)
       IN  /\ model' = st.model
           /\ zones' = st.zones
           /\ capacity' = st.capacity
           /\ sessions' = st.sessions
    /\ rec' = [op |-> "clearAllSessions", arg |-> <<>>, out |-> <<>>]
    /\ nOps' = nOps + 1
    /\ UNCHANGED <<timer, tasks, hist>>

\* The blobs importRLState can be given: a backup, or what exportRLState has
\* just returned.
ImportableBlobs == Backups \cup (IF rec.op = "exportRLState" THEN {rec.out} ELSE {})

ImportRLState ==
    /\ nOps < MaxOps
    /\ \E data \in ImportableBlobs :
          /\ model' = importModel(model, data)
          /\ zones' = importZones(zones, data)
          /\ capacity' = importCapacity(capacity, data)
          /\ rec' = [op |-> "importRLState", arg |-> data,
                     out |-> [roundTrip |-> (rec.op = "exportRLState" /\ data = rec.out)]]
    /\ nOps' = nOps + 1
    /\ UNCHANGED <<sessions, timer, tasks, hist>>

ExportRLState ==
    /\ nOps < MaxOps
    /\ rec' = [op |-> "exportRLState", arg |-> <<>>,
               out |-> exportRLState(model, zones, capacity)]
    /\ nOps' = nOps + 1
    /\ UNCHANGED <<model, zones, capacity, sessions, timer, tasks, hist>>

Next ==
    \/ RecommendFocus
    \/ RecommendBreak
    \/ CompleteSession
    \/ PenalizeRejection
    \/ ClearAllSessions
    \/ ImportRLState
    \/ ExportRLState

Spec == Init /\ [][Next]_vars

-----------------------------------------------------------------------------
(* Claims on operations run one after another *)

\* C1: every posterior stored in the model table has alpha >= 1.0 and
\* beta >= 1.5, whatever updateModel, penalizeRejection, the spillover update
\* and the prior materialisation of getBestAction have written.
C1_PriorsAreFloor ==
    \A k \in DOMAIN model : \A a \in DOMAIN model[k] :
        model[k][a].alpha >= DEFAULT_ALPHA /\ model[k][a].beta >= DEFAULT_BETA

\* A rejected arm was penalised on top of observed sessions: its beta has
\* grown and its alpha was left alone.
C1_Witness ==
    /\ rec.op = "penalizeRejection"
    /\ LET k == createContextKey(rec.arg.taskType, rec.arg.energyLevel)
       IN  /\ k \in DOMAIN model
           /\ rec.arg.action \in DOMAIN model[k]
           /\ model[k][rec.arg.action].beta >= DEFAULT_BETA + Unit
           /\ \E a \in DOMAIN model[k] : model[k][a].alpha > DEFAULT_ALPHA

C3_HeuristicBelowTwo ==
    (rec.op = "recommendFocus" /\ rec.out.totalObs < 2 * Unit)
        => /\ rec.out.source = "heuristic"
           /\ rec.out.value = clampToActions(rec.out.actions, rec.arg.heuristic)

\* The capacity statistics of the context the last recommendation was for
\* (recommendFocus does not write the capacity table).
RecCapacity ==
    getCapacityStats(capacity, createContextKey(rec.arg.taskType, rec.arg.energyLevel))

Struggling(stats) ==
    /\ Len(stats.recentSessions) >= 3
    /\ 2 * stats.completionRate.num < stats.completionRate.den

\* C4: when the capacity window of the context holds at least 3 sessions and
\* its completion rate is below 0.5, recommendFocus returns
\* max(10, round5(averageCapacity)) clamped to the arm range, source capacity.
C4_StrugglingGetsCapacity ==
    (rec.op = "recommendFocus" /\ Struggling(RecCapacity))
        => /\ rec.out.source = "capacity"
           /\ rec.out.value =
                clampToActions(rec.out.actions,
                    Max2(10, roundToNearest5(RecCapacity.averageCapacity.num,
                                             RecCapacity.averageCapacity.den)))

\* The lower-energy contexts of the last recommendation that hold arms
\* (recommendFocus writes only the context it is asked about).
LowerContexts ==
    {createContextKey(rec.arg.taskType, energyHierarchy[i]) :
        i \in 1..(energyIndex(rec.arg.energyLevel) - 1)}

\* C5: for every lower-energy context of the same task type whose best arm
\* by posterior mean is a*, recommendFocus returns at least
\* min(a*, max(arms)).
C5_CrossEnergyFloor ==
    rec.op = "recommendFocus" =>
        \A k \in LowerContexts :
            (k \in DOMAIN model /\ DOMAIN model[k] # {})
                => rec.out.value >= Min2(bestLowerArm(model[k]), MaxOf(rec.out.actions))

\* C9: after clearAllSessions the model, zones and capacity tables are empty.
C9_ClearEmptiesTables ==
    rec.op = "clearAllSessions"
        => model = EmptyTable /\ zones = EmptyTable /\ capacity = EmptyTable

\* C10: after importRLState each of the three tables equals the table of the
\* imported blob, the empty table when the blob lacks it.
C10_ImportReplacesTables ==
    rec.op = "importRLState"
        => /\ model = (IF rec.arg.hasModel THEN rec.arg.model ELSE EmptyTable)
           /\ zones = (IF rec.arg.hasZones THEN rec.arg.zones ELSE EmptyTable)
           /\ capacity = (IF rec.arg.hasCapacity THEN rec.arg.capacity ELSE EmptyTable)

AdmittedArms ==
    ZONE_ACTIONS("short") \cup ZONE_ACTIONS("long") \cup BREAK_ACTIONS
        \cup UNION DynamicArmLists

\* C13: every arm stored under a context of the model table is a focus arm of
\* a zone, a break arm or a dynamic arm of the user; no outcome creates a
\* posterior for arm 0.
C13_ArmsAreAdmitted ==
    \A k \in DOMAIN model : \A a \in DOMAIN model[k] : a \in AdmittedArms

\* The posterior of an arm as a read gives it: the stored one, or the prior.
posteriorOf(m, contextKey, action) ==
    IF contextKey \in DOMAIN m /\ action \in DOMAIN m[contextKey]
    THEN m[contextKey][action] ELSE DefaultParams

\* Every posterior of m other than that of (contextKey, action) is in n as it
\* is in m, and n holds no further posterior.
OthersUnchanged(m, n, contextKey, action) ==
    /\ DOMAIN n = (DOMAIN m) \cup {contextKey}
    /\ \A k \in DOMAIN n :
          /\ DOMAIN n[k] = (IF k \in DOMAIN m THEN DOMAIN m[k] ELSE {})
                              \cup (IF k = contextKey THEN {action} ELSE {})
          /\ \A a \in DOMAIN n[k] :
                (k # contextKey \/ a # action) => n[k][a] = m[k][a]

\* C17: penalizeRejection(C, a) adds exactly 0.3 to beta of arm a in context
\* C and leaves alpha of that arm and every other posterior as they were.
C17_PenaltyAddsToBeta ==
    [][rec'.op = "penalizeRejection"
          => LET k == createContextKey(rec'.arg.taskType, rec'.arg.energyLevel)
                 a == rec'.arg.action
                 old == posteriorOf(model, k, a)
             IN  /\ posteriorOf(model', k, a)
                       = [alpha |-> old.alpha, beta |-> old.beta + 300]
                 /\ OthersUnchanged(model, model', k, a)]_vars

C22_RecommendationsOnlyInitialise ==
    [][rec'.op \in {"recommendFocus", "recommendBreak"}
          => /\ \A k \in DOMAIN model :
                   /\ k \in DOMAIN model'
                   /\ \A a \in DOMAIN model[k] :
                         a \in DOMAIN model'[k] /\ model'[k][a] = model[k][a]
             /\ \A k \in DOMAIN model' : \A a \in DOMAIN model'[k] :
                   (k \notin DOMAIN model \/ a \notin DOMAIN model[k])
                       => model'[k][a] = [alpha |-> 1000, beta |-> 1500]
             /\ \A k \in DOMAIN model' :
                   getTotalObservations(model', k) = getTotalObservations(model, k)
             /\ \A k \in DOMAIN zones : k \in DOMAIN zones' /\ zones'[k] = zones[k]
             /\ \A k \in DOMAIN zones' :
                   k \notin DOMAIN zones => zones'[k].selections = <<>>
             /\ capacity' = capacity]_vars

\* A sampled recommendation for a context with observations has added priors
\* for the arms that had no posterior.
C22_Witness ==
    /\ rec.op = "recommendFocus"
    /\ rec.out.source # "heuristic"
    /\ LET k == createContextKey(rec.arg.taskType, rec.arg.energyLevel)
       IN  /\ k \in DOMAIN model /\ k \in DOMAIN zones
           /\ \E a \in DOMAIN model[k] : model[k][a] = DefaultParams
           /\ \E a \in DOMAIN model[k] : model[k][a].alpha > DEFAULT_ALPHA

\* C24: recommendBreak never returns more than max(5, floor(focusMinutes / 3)).
\* With fewer than 2 observations on the break context it returns
\* min(heuristicBreak, largest permitted break) with source heuristic;
\* otherwise it returns a permitted break arm with source learned.
C24_BreakWithinPermitted ==
    [][rec'.op = "recommendBreak"
          => LET a == rec'.arg
                 most == IF a.focusDuration \div 3 > 5 THEN a.focusDuration \div 3 ELSE 5
                 permitted == {x \in {5, 10, 15, 20} : x <= most}
                 largest == CHOOSE x \in permitted : \A y \in permitted : y <= x
                 breakKey == a.taskType \o "-break|" \o a.energyLevel
                 seen == getTotalObservations(model, breakKey)
             IN  /\ rec'.out.value <= most
                 /\ seen < 2 * Unit
                       => /\ rec'.out.source = "heuristic"
                          /\ rec'.out.value
                                = (IF a.baseBreak < largest THEN a.baseBreak ELSE largest)
                 /\ seen >= 2 * Unit
                       => /\ rec'.out.source = "learned"
                          /\ rec'.out.value \in permitted]_vars

\* A learned 10-minute break after a 40-minute session, where the heuristic
\* asked for 20.
C24_Witness ==
    /\ rec.op = "recommendBreak"
    /\ rec.out.source = "learned"
    /\ rec.arg.focusDuration = 40
    /\ rec.arg.baseBreak = 20
    /\ rec.out.value = 10

\* A heuristic break clamped to the only permitted arm of a 25-minute session.
C24_WitnessClamped ==
    /\ rec.op = "recommendBreak"
    /\ rec.out.source = "heuristic"
    /\ rec.arg.focusDuration = 25
    /\ rec.arg.baseBreak = 20
    /\ rec.out.value = 5

-----------------------------------------------------------------------------
(* Operations as the runtime runs them: each await of a storage read or     *)
(* write is a point where another pending operation can run.  A task is an  *)
(* invoked operation with the storage accesses it still has to make.        *)

\* Operations invoked in one behaviour.
MaxTasks == 2

AccessStep(kind, key, energyLevel, a, b, completed, reward, next) ==
    [kind |-> kind, key |-> key, energyLevel |-> energyLevel, a |-> a, b |-> b,
     completed |-> completed, reward |-> reward, next |-> next]

\* updateModel returns before its loadModel when the reward is 0 or NaN.
modelSteps(key, action, reward) ==
    IF reward = 0 \/ reward = NaN THEN <<>>
    ELSE <<AccessStep("updateModel", key, "", action, 0, FALSE, reward, "")>>

\* The awaited calls of completeSession after the reward is known.
sessionSteps(p, reward) ==
    LET contextKey == p.taskType \o "|" \o p.energyLevel
        focusKey == createFocusContextKey(p.taskType, p.energyLevel)
        breakKey == createBreakContextKey(p.taskType, p.energyLevel)
        focusTimeInMinutes == secondsToMinutes(p.focusedTime)
        totalFocusDuration == secondsToMinutes(p.originalFocusDuration)
        breakTimeInMinutes == secondsToMinutes(p.selectedBreakDuration)
        insert == <<AccessStep("createAndSaveSession", "", "", 0, 0, FALSE, 0, "")>>
    IN  IF p.type = "completed"
        THEN insert \o modelSteps(focusKey, focusTimeInMinutes, reward)
               \o modelSteps(breakKey, breakTimeInMinutes, reward)
               \o <<AccessStep("updateCapacityStats", contextKey, "",
                               focusTimeInMinutes, focusTimeInMinutes, TRUE, 0, ""),
                    AccessStep("updateZoneData", contextKey, "",
                               focusTimeInMinutes, 0, FALSE, 0, "")>>
               \o (IF reward # NaN /\ reward >= SPILLOVER_THRESHOLD
                   THEN <<AccessStep("getZoneData", contextKey, p.energyLevel,
                                     focusTimeInMinutes, 0, FALSE, reward, "spillover")>>
                   ELSE <<>>)
        ELSE IF p.type = "skippedFocus"
        THEN insert \o <<AccessStep("updateCapacityStats", contextKey, "",
                                    totalFocusDuration, focusTimeInMinutes, FALSE, 0, "")>>
        ELSE insert \o modelSteps(focusKey, focusTimeInMinutes, reward)
               \o modelSteps(breakKey, 0, reward)

\* completeSession as invoked: a completed session first reads the capacity
\* statistics to scale its reward.
completeSessionSteps(p) ==
    IF tooShortToSave(p) THEN <<>>
    ELSE IF p.type = "completed"
    THEN <<AccessStep("getCapacityStats", p.taskType \o "|" \o p.energyLevel, "",
                      0, 0, FALSE, 0, "scale")>>
    ELSE sessionSteps(p, baseRewardOf(p))

\* getSmartRecommendation up to its loadModel.
recommendationSteps(a) ==
    LET contextKey == createContextKey(a.taskType, a.energyLevel)
    IN  <<AccessStep("getZoneData", contextKey, a.energyLevel, a.heuristic, 0,
                     FALSE, 0, "zone"),
          AccessStep("getCapacityStats", contextKey, "", 0, 0, FALSE, 0, "stats"),
          AccessStep("loadModel", contextKey, "", 0, 0, FALSE, 0, "")>>

\* getBestAction: loadModel, getZoneData(contextKey, energyLevel, 25), then
\* the save of the materialised priors.
getBestActionSteps(a) ==
    LET contextKey == createContextKey(a.taskType, a.energyLevel)
    IN  <<AccessStep("getBestAction", contextKey, "", 0, 0, FALSE, 0, ""),
          AccessStep("getZoneData", contextKey, a.energyLevel, 25, 0, FALSE, 0, "best"),
          AccessStep("saveModel", contextKey, "", 0, 0, FALSE, 0, "")>>

NoTables == [model |-> EmptyTable, zones |-> EmptyTable, capacity |-> EmptyTable,
             sessions |-> 0]

NewTask(op, arg, steps) ==
    [op |-> op, arg |-> arg, steps |-> steps, phase |-> "load", image |-> EmptyTable,
     reward |-> 0, m |-> EmptyTable, mBest |-> EmptyTable,
     zoneData |-> NewZoneData("short"), stats |-> EmptyCapacityStats,
     after |-> NoTables, afterKnown |-> FALSE, result |-> <<>>]

Pending(t) == t.steps # <<>>

Advance(t) == [t EXCEPT !.steps = Tail(@), !.phase = "load", !.image = EmptyTable]

\* Sessions and recommendations the store invokes while others are pending.
AsyncOutcomes ==
    {Outcome("completed", "mid", 25, 1500), Outcome("skippedFocus", "mid", 40, 600)}

AsyncRecommendations ==
    [taskType : TaskTypes, energyLevel : {"mid", "high"}, heuristic : {25},
     dynamicArms : {{}}]

AsyncHistories == {<<>>, <<Outcome("completed", "low", 40, 2400),
                           Outcome("completed", "low", 40, 2400),
                           Outcome("completed", "high", 25, 1500),
                           Outcome("skippedBreak", "high", 25, 1500)>>}

InitAsync ==
    /\ \E h \in AsyncHistories :
          /\ h \in Histories
          /\ LET st == AfterHistory(StorageState, h)
             IN  /\ model = st.model
                 /\ zones = st.zones
                 /\ capacity = st.capacity
                 /\ sessions = st.sessions
    /\ rec = NoResult
    /\ nOps = 0
    /\ timer = IdleTimer
    /\ tasks = <<>>
    /\ hist = <<>>

\* saveAndCompleteSession: the store sets hasSavedSession and calls
\* completeSession, which runs up to its first await.
InvokeCompleteSession ==
    /\ Len(tasks) < MaxTasks
    /\ \A i \in DOMAIN tasks : tasks[i].op = "completeSession" => ~Pending(tasks[i])
    /\ \E p \in AsyncOutcomes :
          LET t == NewTask("completeSession", p, completeSessionSteps(p))
          IN  tasks' = Append(tasks,
                  IF p.type = "completed" THEN t
                  ELSE [t EXCEPT !.reward = baseRewardOf(p), !.afterKnown = TRUE,
                                 !.after = completeSession(model, zones, capacity,
                                               sessions, p, baseRewardOf(p))])
    /\ UNCHANGED <<model, zones, capacity, sessions, rec, nOps, timer, hist>>

\* setTaskType / setEnergyLevel: updateRecommendations is called and not
\* awaited; getSmartRecommendation runs up to its first await.
InvokeRecommendFocus ==
    /\ Len(tasks) < MaxTasks
    /\ \E a \in AsyncRecommendations :
          tasks' = Append(tasks, NewTask("recommendFocus", a, recommendationSteps(a)))
    /\ UNCHANGED <<model, zones, capacity, sessions, rec, nOps, timer, hist>>

Current(i, kind) == Pending(tasks[i]) /\ Head(tasks[i].steps).kind = kind

SetTask(i, t) == tasks' = [tasks EXCEPT ![i] = t]

\* createAndSaveSession: the session row is inserted.
ResumeCreateAndSaveSession(i) ==
    /\ Current(i, "createAndSaveSession")
    /\ sessions' = sessions + 1
    /\ SetTask(i, Advance(tasks[i]))
    /\ UNCHANGED <<model, zones, capacity, rec, nOps, timer, hist>>

\* updateModel: loadModel, then saveModel of the image it loaded with the one
\* posterior changed.
ResumeUpdateModel(i) ==
    /\ Current(i, "updateModel")
    /\ LET t == tasks[i]
           u == Head(t.steps)
       IN  IF t.phase = "load"
           THEN /\ SetTask(i, [t EXCEPT !.phase = "save", !.image = loadTable(model)])
                /\ UNCHANGED <<model, hist>>
           ELSE LET image == updateModel(t.image, u.key, u.a, u.reward)
                IN  /\ model' = saveTable(model, image)
                    /\ hist' = Append(hist, [task |-> i, key |-> u.key, action |-> u.a,
                                             params |-> image[u.key][u.a]])
                    /\ SetTask(i, Advance(t))
    /\ UNCHANGED <<zones, capacity, sessions, rec, nOps, timer>>

ResumeUpdateCapacityStats(i) ==
    /\ Current(i, "updateCapacityStats")
    /\ LET t == tasks[i]
           u == Head(t.steps)
       IN  IF t.phase = "load"
           THEN /\ SetTask(i, [t EXCEPT !.phase = "save", !.image = loadTable(capacity)])
                /\ UNCHANGED capacity
           ELSE /\ capacity' = saveTable(capacity,
                       updateCapacityStats(t.image, u.key, u.a, u.b, u.completed))
                /\ SetTask(i, Advance(t))
    /\ UNCHANGED <<model, zones, sessions, rec, nOps, timer, hist>>

ResumeUpdateZoneData(i) ==
    /\ Current(i, "updateZoneData")
    /\ LET t == tasks[i]
           u == Head(t.steps)
       IN  IF t.phase = "load"
           THEN /\ SetTask(i, [t EXCEPT !.phase = "save", !.image = loadTable(zones)])
                /\ UNCHANGED zones
           ELSE /\ zones' = saveTable(zones, updateZoneData(t.image, u.key, u.a))
                /\ SetTask(i, Advance(t))
    /\ UNCHANGED <<model, capacity, sessions, rec, nOps, timer, hist>>

\* What the caller of getZoneData does with the record: getSmartRecommendation
\* keeps it, the spillover of completeSession updates the next arm above the
\* focused minutes, getBestAction has its actions already.
AfterZone(t, u, zoneData) ==
    IF u.next = "zone" THEN [t EXCEPT !.zoneData = zoneData]
    ELSE IF u.next = "spillover"
    THEN LET nextArm == nextArmAbove(getZoneActions(zoneData.zone, {}), u.a)
         IN  IF nextArm # 0
             THEN [t EXCEPT !.steps =
                      modelSteps(u.key, nextArm, spilloverReward(u.reward)) \o @]
             ELSE t
    ELSE t

\* getZoneData: loadZones, and saveZones of the image with the new record
\* when the context had none.
ResumeGetZoneData(i) ==
    /\ Current(i, "getZoneData")
    /\ LET t == tasks[i]
           u == Head(t.steps)
       IN  IF t.phase = "load"
           THEN /\ UNCHANGED zones
                /\ IF u.key \in DOMAIN zones
                   THEN SetTask(i, AfterZone(Advance(t), u, zones[u.key]))
                   ELSE SetTask(i, [t EXCEPT !.phase = "save",
                                             !.image = loadTable(zones)])
           ELSE LET image == getZoneData(t.image, u.key, u.energyLevel, u.a)
                IN  /\ zones' = saveTable(zones, image)
                    /\ SetTask(i, AfterZone(Advance(t), u, image[u.key]))
    /\ UNCHANGED <<model, capacity, sessions, rec, nOps, timer, hist>>

\* getCapacityStats: one read.  completeSession scales its reward with it and
\* goes on to its writes; getSmartRecommendation keeps the statistics.
ResumeGetCapacityStats(i) ==
    /\ Current(i, "getCapacityStats")
    /\ LET t == tasks[i]
           u == Head(t.steps)
       IN  IF u.next = "scale"
           THEN \E reward \in rewardsOf(t.arg, capacity) :
                   SetTask(i, [t EXCEPT !.reward = reward,
                                        !.steps = sessionSteps(t.arg, reward),
                                        !.afterKnown = TRUE,
                                        !.after = completeSession(model, zones, capacity,
                                                      sessions, t.arg, reward)])
           ELSE SetTask(i, Advance([t EXCEPT !.stats = getCapacityStats(capacity, u.key)]))
    /\ UNCHANGED <<model, zones, capacity, sessions, rec, nOps, timer, hist>>

\* The task returns a result to updateRecommendations.
Return(i, t, r) ==
    /\ SetTask(i, [t EXCEPT !.steps = <<>>, !.phase = "load", !.image = EmptyTable,
                            !.result = r])
    /\ rec' = [op |-> "recommendFocus", arg |-> t.arg,
               out |-> [value |-> r.value, source |-> r.source,
                        actions |-> r.call.actions, totalObs |-> r.call.totalObs,
                        modelRec |-> r.modelRec,
                        capacityAdjusted |-> r.capacityAdjusted,
                        floored |-> r.floored]]

\* loadModel of getSmartRecommendation: below the gate the heuristic is
\* returned, else getBestAction is called.
ResumeLoadModel(i) ==
    /\ Current(i, "loadModel")
    /\ LET t == [tasks[i] EXCEPT !.m = loadTable(model)]
           u == Head(t.steps)
       IN  IF useHeuristic(getTotalObservations(t.m, u.key))
           THEN \E r \in recommendationResults(t.m, t.m, t.zoneData, t.stats,
                            t.arg.taskType, t.arg.energyLevel, t.arg.heuristic,
                            t.arg.dynamicArms) : Return(i, t, r)
           ELSE /\ SetTask(i, [t EXCEPT !.steps = getBestActionSteps(t.arg)])
                /\ UNCHANGED rec
    /\ UNCHANGED <<model, zones, capacity, sessions, nOps, timer, hist>>

\* loadModel of getBestAction.
ResumeGetBestAction(i) ==
    /\ Current(i, "getBestAction")
    /\ SetTask(i, Advance([tasks[i] EXCEPT !.mBest = loadTable(model)]))
    /\ UNCHANGED <<model, zones, capacity, sessions, rec, nOps, timer, hist>>

\* if (needsSave) await saveModel(model), then the choice of the arm and the
\* rest of getSmartRecommendation, which reads no storage.
ResumeSaveModel(i) ==
    /\ Current(i, "saveModel")
    /\ LET t == tasks[i]
           u == Head(t.steps)
           actions == getZoneActions(t.zoneData.zone, t.arg.dynamicArms)
       IN  /\ IF needsSave(t.mBest, u.key, actions)
              THEN model' = saveTable(model, materialisePriors(t.mBest, u.key, actions))
              ELSE UNCHANGED model
           /\ \E r \in recommendationResults(t.m, t.mBest, t.zoneData, t.stats,
                            t.arg.taskType, t.arg.energyLevel, t.arg.heuristic,
                            t.arg.dynamicArms) : Return(i, t, r)
    /\ UNCHANGED <<zones, capacity, sessions, nOps, timer, hist>>

NextAsync ==
    \/ InvokeCompleteSession
    \/ InvokeRecommendFocus
    \/ \E i \in DOMAIN tasks : ResumeCreateAndSaveSession(i)
    \/ \E i \in DOMAIN tasks : ResumeUpdateModel(i)
    \/ \E i \in DOMAIN tasks : ResumeUpdateCapacityStats(i)
    \/ \E i \in DOMAIN tasks : ResumeUpdateZoneData(i)
    \/ \E i \in DOMAIN tasks : ResumeGetZoneData(i)
    \/ \E i \in DOMAIN tasks : ResumeGetCapacityStats(i)
    \/ \E i \in DOMAIN tasks : ResumeLoadModel(i)
    \/ \E i \in DOMAIN tasks : ResumeGetBestAction(i)
    \/ \E i \in DOMAIN tasks : ResumeSaveModel(i)

SpecAsync == InitAsync /\ [][NextAsync]_vars

-----------------------------------------------------------------------------
(* Claims on interleaved operations *)

TaskContext(t) == t.arg.taskType \o "|" \o t.arg.energyLevel

\* The sessions recorded for the context of recommendation i that were
\* invoked before it.
OutcomesBefore(i) ==
    {j \in 1..(i - 1) : /\ tasks[j].op = "completeSession"
                        /\ TaskContext(tasks[j]) = TaskContext(tasks[i])
                        /\ ~tooShortToSave(tasks[j].arg)}

\* Recommendation r has read the capacity window, the zone selections and
\* the posteriors that the session o leaves behind.
SeesOutcome(r, o) ==
    LET key == TaskContext(r)
    IN  /\ key \in DOMAIN o.after.capacity => r.stats = o.after.capacity[key]
        /\ key \in DOMAIN o.after.zones
              => r.zoneData.selections = o.after.zones[key].selections
        /\ key \in DOMAIN o.after.model
              => /\ key \in DOMAIN r.m
                 /\ \A a \in DOMAIN o.after.model[key] :
                       a \in DOMAIN r.m[key] /\ r.m[key][a] = o.after.model[key][a]

\* C7: a recommendFocus invoked after a session of its context was handed to
\* completeSession has read the model, zone and capacity state with all the
\* writes of that session applied.
C7_RecommendationSeesOutcome ==
    \A i \in DOMAIN tasks :
        (tasks[i].op = "recommendFocus" /\ ~Pending(tasks[i]))
            => \A j \in OutcomesBefore(i) :
                  tasks[j].afterKnown => SeesOutcome(tasks[i], tasks[j])

AllReturned == \A i \in DOMAIN tasks : ~Pending(tasks[i])

LastWrite(n) ==
    \A k \in (n + 1)..Len(hist) :
        hist[k].key # hist[n].key \/ hist[k].action # hist[n].action

\* Every other operation invoked was on another context than key.
OtherContextsOnly(key, op) ==
    \A i \in DOMAIN tasks : tasks[i].op # op => TaskContext(tasks[i]) # key

\* C8: once every operation has returned, the model table holds the
\* posterior every updateModel wrote, when the operations interleaved with it
\* were on other contexts, and every prior a getBestAction materialised.
C8_NoLostUpdate ==
    AllReturned =>
        /\ \A n \in DOMAIN hist :
              (LastWrite(n) /\ OtherContextsOnly(hist[n].key, "completeSession"))
                  => /\ hist[n].key \in DOMAIN model
                     /\ hist[n].action \in DOMAIN model[hist[n].key]
                     /\ model[hist[n].key][hist[n].action] = hist[n].params
        /\ \A i \in DOMAIN tasks :
              (/\ tasks[i].op = "recommendFocus"
               /\ tasks[i].result.source # "heuristic"
               /\ OtherContextsOnly(TaskContext(tasks[i]), "recommendFocus"))
                  => /\ TaskContext(tasks[i]) \in DOMAIN model
                     /\ tasks[i].result.call.actions
                           \subseteq DOMAIN model[TaskContext(tasks[i])]

-----------------------------------------------------------------------------
(* The timer store: startTimer, the one-second tick, completeTimer, the two  *)
(* skips, resetTimer, and the pending continuations of their awaits.        *)

\* Store actions invoked in one behaviour.
MaxCalls == 5

\* The session the store hands over: coding at mid energy, 25 minutes, of
\* which 10 were focused when the focus is skipped.
StoreSession(type) ==
    Outcome(type, "mid", 25, IF type = "skippedFocus" THEN 600 ELSE 1500)

resetTimerState(t) ==
    [t EXCEPT !.isActive = FALSE, !.isBreakTime = FALSE,
              !.sessionStartTimestamp = FALSE]

\* Mutation of markSaved: the flag is not set before completeSession is awaited.
markSavedLate(t) == t

\* set({ hasSavedSession: true, sessionJustCompleted: true })
markSaved(t) == [t EXCEPT !.hasSavedSession = TRUE]

Continuation(op, type, thenReset) == [op |-> op, type |-> type, thenReset |-> thenReset]

RemoveAt(seq, i) == [k \in 1..(Len(seq) - 1) |-> IF k < i THEN seq[k] ELSE seq[k + 1]]

\* saveAndCompleteSession up to its await of completeSession: the store after
\* it and the continuations pending after it.  With the flag set it returns
\* at once, and the caller goes on (completeTimer resets the timer state).
saveAndCompleteSession(t, pending, type, thenReset) ==
    IF t.hasSavedSession
    THEN [timer |-> IF thenReset THEN resetTimerState([t EXCEPT !.guarded = TRUE])
                    ELSE [t EXCEPT !.guarded = TRUE],
          tasks |-> pending]
    ELSE [timer |-> [markSaved(t) EXCEPT !.saves = @ + 1],
          tasks |-> Append(pending, Continuation("completeSession", type, thenReset))]

completeTimer(t, pending) ==
    IF ~t.isBreakTime
    THEN [timer |-> resetTimerState(t), tasks |-> pending]
    ELSE saveAndCompleteSession(t, pending, "completed", TRUE)

InitTimer ==
    /\ model = EmptyTable
    /\ zones = EmptyTable
    /\ capacity = EmptyTable
    /\ sessions = 0
    /\ rec = NoResult
    /\ nOps = 0
    /\ timer = IdleTimer
    /\ tasks = <<>>
    /\ hist = <<>>

\* startTimer up to its first await (the notification calls).
StartTimer ==
    /\ nOps < MaxCalls
    /\ nOps' = nOps + 1
    /\ tasks' = Append(tasks, Continuation("startTimer", "", FALSE))
    /\ UNCHANGED <<model, zones, capacity, sessions, rec, timer, hist>>

\* startTimer after its awaits: the timer runs, the save-once flag is
\* cleared, a timer run begins.
ResumeStartTimer(i) ==
    /\ tasks[i].op = "startTimer"
    /\ timer' = [timer EXCEPT !.isActive = TRUE, !.sessionStartTimestamp = TRUE,
                              !.hasSavedSession = FALSE, !.saves = 0,
                              !.guarded = FALSE]
    /\ tasks' = RemoveAt(tasks, i)
    /\ UNCHANGED <<model, zones, capacity, sessions, rec, nOps, hist>>

\* restoreTimerState, called every second and on app resume: with time left
\* it only refreshes the time; at the end of the focus it opens the break
\* choice; at the end of the break it calls completeTimer.
RestoreTimerState ==
    /\ nOps < MaxCalls
    /\ nOps' = nOps + 1
    /\ timer.isActive /\ timer.sessionStartTimestamp
    /\ \E remaining \in {0, 1} :
          IF remaining > 0 THEN UNCHANGED <<timer, tasks>>
          ELSE IF ~timer.isBreakTime
          THEN /\ timer' = [timer EXCEPT !.isActive = FALSE, !.isBreakTime = TRUE,
                                         !.sessionStartTimestamp = FALSE]
               /\ UNCHANGED tasks
          ELSE LET st == completeTimer(timer, tasks)
               IN  timer' = st.timer /\ tasks' = st.tasks
    /\ UNCHANGED <<model, zones, capacity, sessions, rec, hist>>

\* skipFocusSession(isBreakTime) up to its await of cancelScheduledNotification.
SkipFocusSession ==
    /\ nOps < MaxCalls
    /\ nOps' = nOps + 1
    /\ tasks' = Append(tasks,
          Continuation("skipFocusSession",
                       IF timer.isBreakTime THEN "skippedBreak" ELSE "skippedFocus",
                       FALSE))
    /\ UNCHANGED <<model, zones, capacity, sessions, rec, timer, hist>>

\* skipFocusSession after its await: saveAndCompleteSession.
ResumeSkipFocusSession(i) ==
    /\ tasks[i].op = "skipFocusSession"
    /\ LET st == saveAndCompleteSession(timer, RemoveAt(tasks, i), tasks[i].type, FALSE)
       IN  timer' = st.timer /\ tasks' = st.tasks
    /\ UNCHANGED <<model, zones, capacity, sessions, rec, nOps, hist>>

\* startBreak(duration): 0 skips the break and saves; another duration starts
\* the break timer.
StartBreak ==
    /\ nOps < MaxCalls
    /\ nOps' = nOps + 1
    /\ \E duration \in {0} \cup BreakSeconds :
          IF duration = 0
          THEN LET st == saveAndCompleteSession(timer, tasks, "skippedBreak", FALSE)
               IN  timer' = st.timer /\ tasks' = st.tasks
          ELSE /\ timer' = [timer EXCEPT !.isBreakTime = TRUE, !.isActive = TRUE]
               /\ tasks' = Append(tasks, Continuation("startTimer", "", FALSE))
    /\ UNCHANGED <<model, zones, capacity, sessions, rec, hist>>

\* completeSession has returned to saveAndCompleteSession: the session and
\* what was learned from it are stored, and the timer state is reset (by
\* saveAndCompleteSession for a skip, by completeTimer after it otherwise).
ResumeCompleteSession(i) ==
    /\ tasks[i].op = "completeSession"
    /\ LET p == StoreSession(tasks[i].type)
       IN  \E reward \in rewardsOf(p, capacity) :
              LET st == completeSession(model, zones, capacity, sessions, p, reward)
              IN  /\ model' = st.model
                  /\ zones' = st.zones
                  /\ capacity' = st.capacity
                  /\ sessions' = st.sessions
    /\ timer' = resetTimerState(timer)
    /\ tasks' = RemoveAt(tasks, i)
    /\ UNCHANGED <<rec, nOps, hist>>

\* resetTimer: the timer stops and the save-once flag is cleared; the run ends.
ResetTimer ==
    /\ nOps < MaxCalls
    /\ nOps' = nOps + 1
    /\ timer' = [timer EXCEPT !.isActive = FALSE, !.isBreakTime = FALSE,
                              !.hasSavedSession = FALSE, !.saves = 0,
                              !.guarded = FALSE]
    /\ UNCHANGED <<model, zones, capacity, sessions, rec, tasks, hist>>

NextTimer ==
    \/ StartTimer
    \/ RestoreTimerState
    \/ SkipFocusSession
    \/ StartBreak
    \/ ResetTimer
    \/ \E i \in DOMAIN tasks : ResumeStartTimer(i)
    \/ \E i \in DOMAIN tasks : ResumeSkipFocusSession(i)
    \/ \E i \in DOMAIN tasks : ResumeCompleteSession(i)

SpecTimer == InitTimer /\ [][NextTimer]_vars

\* C6: within one timer run completeSession is invoked at most once, however
\* completeTimer (each tick), skipFocusSession and startBreak(0) interleave
\* while an earlier save is awaiting storage.
C6_SavedOncePerRun == timer.saves <= 1

\* The save completeTimer started at the end of the break is awaiting
\* storage and the guard has turned a later call away.
C6_Witness ==
    /\ timer.saves = 1
    /\ timer.guarded
    /\ \E i \in DOMAIN tasks :
          tasks[i].op = "completeSession" /\ tasks[i].type = "completed"

-----------------------------------------------------------------------------
(* getSmartRecommendation when storage accesses fail.  A read that fails is *)
(* caught inside loadModel / loadZones / loadCapacity, which return {}; a    *)
(* write that fails is caught inside the save function and nothing is        *)
(* stored.  Neither rethrows, so the catch block of getSmartRecommendation   *)
(* is not entered by a storage failure.                                      *)

\* Recommendations asked for under failing storage in one behaviour.
MaxFaultyOps == 1

\* Which storage accesses of one call fail, in the order the call makes them.
Faults ==
    [zonesRead : BOOLEAN, zonesWrite : BOOLEAN, capacityRead : BOOLEAN,
     modelRead : BOOLEAN, bestModelRead : BOOLEAN, bestZonesRead : BOOLEAN,
     bestZonesWrite : BOOLEAN, modelWrite : BOOLEAN]

loadOrEmpty(stored, fails) == IF fails THEN EmptyTable ELSE loadTable(stored)

saveUnless(stored, image, fails) == IF fails THEN stored ELSE saveTable(stored, image)

\* getZoneData: what is stored after it, the record it returns, and whether
\* one of its accesses failed.
getZoneDataFaults(z, contextKey, energyLevel, heuristicDuration, readFails, writeFails) ==
    LET image == loadOrEmpty(z, readFails)
        created == Put(image, contextKey,
                       NewZoneData(detectZone(heuristicDuration, energyLevel)))
    IN  IF contextKey \in DOMAIN image
        THEN [stored |-> z, data |-> image[contextKey], failed |-> readFails]
        ELSE [stored |-> saveUnless(z, created, writeFails),
              data |-> created[contextKey], failed |-> readFails \/ writeFails]

\* getSmartRecommendation run to completion on the tables (m, z, c) with the
\* failures f: the set of its possible outcomes.
getSmartRecommendationFaults(m, z, c, taskType, energyLevel, heuristic, dynamicArms, f) ==
    LET contextKey == createContextKey(taskType, energyLevel)
        g1 == getZoneDataFaults(z, contextKey, energyLevel, heuristic,
                                f.zonesRead, f.zonesWrite)
        stats == getCapacityStats(loadOrEmpty(c, f.capacityRead), contextKey)
        actions == getZoneActions(g1.data.zone, dynamicArms)
        m3 == loadOrEmpty(m, f.modelRead)
        sampling == ~useHeuristic(getTotalObservations(m3, contextKey))
        m4 == loadOrEmpty(m, f.bestModelRead)
        g2 == getZoneDataFaults(g1.stored, contextKey, energyLevel, 25,
                                f.bestZonesRead, f.bestZonesWrite)
        saves == needsSave(m4, contextKey, actions)
        m5 == IF sampling /\ saves
              THEN saveUnless(m, materialisePriors(m4, contextKey, actions), f.modelWrite)
              ELSE m
        failed == \/ g1.failed \/ f.capacityRead \/ f.modelRead
                  \/ (sampling /\ (f.bestModelRead \/ g2.failed \/ (saves /\ f.modelWrite)))
    IN  {[call |-> r.call, value |-> r.value, source |-> r.source, failed |-> failed,
          model |-> m5, zones |-> IF sampling THEN g2.stored ELSE g1.stored]
         : r \in recommendationResults(m3, m4, g1.data, stats, taskType,
                                       energyLevel, heuristic, dynamicArms)}

RecommendFocusFaults ==
    /\ nOps < MaxFaultyOps
    /\ \E t \in TaskTypes, e \in EnergyLevels, h \in Heuristics, d \in DynamicArmLists,
          f \in Faults :
         \E o \in getSmartRecommendationFaults(model, zones, capacity, t, e, h, d, f) :
            /\ model' = o.model
            /\ zones' = o.zones
            /\ rec' = [op |-> "recommendFocus",
                       arg |-> [taskType |-> t, energyLevel |-> e, heuristic |-> h,
                                dynamicArms |-> d, faults |-> f],
                       out |-> [value |-> o.value, source |-> o.source,
                                actions |-> o.call.actions, failed |-> o.failed]]
    /\ nOps' = nOps + 1
    /\ UNCHANGED <<capacity, sessions, timer, tasks, hist>>

\* updateModel with a failing loadModel and a failing saveModel: what is
\* stored after it.
updateModelFaults(m, contextKey, action, reward, readFails, writeFails) ==
    IF reward = 0 \/ reward = NaN THEN m
    ELSE saveUnless(m, updateModel(loadOrEmpty(m, readFails), contextKey, action, reward),
                    writeFails)

UpdateModelFaults ==
    /\ nOps < MaxFaultyOps
    /\ \E t \in TaskTypes, e \in EnergyLevels, a \in {25, 30},
          r \in {REJECTION_PENALTY, 600}, readFails \in BOOLEAN, writeFails \in BOOLEAN :
          /\ model' = updateModelFaults(model, createContextKey(t, e), a, r,
                                        readFails, writeFails)
          /\ rec' = [op |-> "updateModel",
                     arg |-> [taskType |-> t, energyLevel |-> e, action |-> a,
                              reward |-> r,
                              faults |-> [modelRead |-> readFails,
                                          modelWrite |-> writeFails]],
                     out |-> <<>>]
    /\ nOps' = nOps + 1
    /\ UNCHANGED <<zones, capacity, sessions, timer, tasks, hist>>

NextFaults ==
    \/ RecommendFocusFaults
    \/ UpdateModelFaults

SpecFaults == Init /\ [][NextFaults]_vars

\* C12: under every combination of failing reads and writes recommendFocus
\* returns a number and a source among heuristic, blended, learned and
\* capacity, and when an access has failed what it returns is the heuristic
\* value (as given, or clamped to the arm range) with source heuristic.
C12_FailureGivesHeuristic ==
    rec.op = "recommendFocus"
        => /\ rec.out.value \in Nat
           /\ rec.out.source \in {"heuristic", "blended", "learned", "capacity"}
           /\ rec.out.failed
                 => /\ rec.out.source = "heuristic"
                    /\ rec.out.value \in {rec.arg.heuristic,
                                          clampToActions(rec.out.actions, rec.arg.heuristic)}

-----------------------------------------------------------------------------
(* The zone and capacity records under the calls that write them:           *)
(* updateZoneData and updateCapacityStats called one after another (as      *)
(* completeSession and the simulator of the test suite call them), and      *)
(* recommendations, which create a missing zone record.                      *)

\* Calls made after the initial state.
MaxUpdates == 6

\* Entries the seeded queues hold when a behaviour starts.
SeedLen == 9

ZoneContexts == {"coding|mid"}
ZoneSelections == {20, 30}
CapacitySessions ==
    {[selectedDuration |-> 30, actualFocusTime |-> 30, completed |-> TRUE],
     [selectedDuration |-> 30, actualFocusTime |-> 10, completed |-> FALSE]}

\* The zones table after n calls of updateZoneData(contextKey, d).
RECURSIVE AfterSelections(_, _, _, _)
AfterSelections(z, contextKey, d, n) ==
    IF n = 0 THEN z
    ELSE AfterSelections(updateZoneData(z, contextKey, d), contextKey, d, n - 1)

\* The capacity table after n calls of updateCapacityStats for one session.
RECURSIVE AfterSessions(_, _, _, _)
AfterSessions(c, contextKey, e, n) ==
    IF n = 0 THEN c
    ELSE AfterSessions(updateCapacityStats(c, contextKey, e.selectedDuration,
                                           e.actualFocusTime, e.completed),
                       contextKey, e, n - 1)

InitZones ==
    /\ model = EmptyTable
    /\ zones \in {EmptyTable, AfterSelections(EmptyTable, "coding|mid", 20, SeedLen)}
    /\ capacity \in {EmptyTable}
          \cup {AfterSessions(EmptyTable, "coding|mid", e, SeedLen) : e \in CapacitySessions}
    /\ sessions = 0
    /\ rec = NoResult
    /\ nOps = 0
    /\ timer = IdleTimer
    /\ tasks = EmptyTable
    /\ hist = <<>>

\* The zone a context is in before updateZoneData appends: the stored one, or
\* the one a missing record is created with.
zoneBefore(z, contextKey, selectedDuration) ==
    IF contextKey \in DOMAIN z THEN z[contextKey].zone
    ELSE IF selectedDuration <= 30 THEN "short" ELSE "long"

UpdateZoneData ==
    /\ nOps < MaxUpdates
    /\ \E k \in ZoneContexts, d \in ZoneSelections :
          /\ zones' = updateZoneData(zones, k, d)
          /\ rec' = [op |-> "updateZoneData",
                     arg |-> [contextKey |-> k, selectedDuration |-> d],
                     out |-> [from |-> zoneBefore(zones, k, d)]]
    /\ nOps' = nOps + 1
    /\ UNCHANGED <<model, capacity, sessions, timer, tasks, hist>>

UpdateCapacityStats ==
    /\ nOps < MaxUpdates
    /\ \E k \in ZoneContexts, e \in CapacitySessions :
          /\ capacity' = updateCapacityStats(capacity, k, e.selectedDuration,
                                             e.actualFocusTime, e.completed)
          /\ rec' = [op |-> "updateCapacityStats",
                     arg |-> [contextKey |-> k, session |-> e], out |-> <<>>]
    /\ nOps' = nOps + 1
    /\ UNCHANGED <<model, zones, sessions, timer, tasks, hist>>

\* recommendFocus for a context: its getZoneData creates a missing record.
RecommendFocusInZone ==
    /\ nOps < MaxUpdates
    /\ \E e \in {"mid", "high"}, h \in Heuristics :
         \E o \in getSmartRecommendation(model, zones, capacity, "coding", e, h, {}) :
            /\ model' = o.model
            /\ zones' = o.zones
            /\ rec' = [op |-> "recommendFocus",
                       arg |-> [contextKey |-> createContextKey("coding", e),
                                heuristic |-> h],
                       out |-> [value |-> o.value, actions |-> o.call.actions]]
    /\ nOps' = nOps + 1
    /\ UNCHANGED <<capacity, sessions, timer, tasks, hist>>

NextZones ==
    \/ UpdateZoneData
    \/ UpdateCapacityStats
    \/ RecommendFocusInZone

SpecZones == InitZones /\ [][NextZones]_vars

QueuesBounded ==
    /\ \A k \in DOMAIN zones : Len(zones[k].selections) <= 10
    /\ \A k \in DOMAIN capacity : Len(capacity[k].recentSessions) <= 10

\* The queue after an append of x to old: x goes last, and the first entry
\* of old is dropped when old was full.
Pushed(old, new, x) ==
    IF Len(old) < 10 THEN new = Append(old, x) ELSE new = Append(Tail(old), x)

QueueStep ==
    /\ rec'.op = "updateZoneData"
          => LET k == rec'.arg.contextKey
             IN  Pushed(IF k \in DOMAIN zones THEN zones[k].selections ELSE <<>>,
                        zones'[k].selections, rec'.arg.selectedDuration)
    /\ rec'.op = "updateCapacityStats"
          => LET k == rec'.arg.contextKey
             IN  Pushed(getCapacityStats(capacity, k).recentSessions,
                        capacity'[k].recentSessions, rec'.arg.session)

\* C14: the selections queue and the recentSessions queue of every context
\* hold at most 10 entries, and an append to a full queue removes its oldest
\* entry: the queue keeps the 10 most recent entries in arrival order.
C14_QueuesKeepNewest == []QueuesBounded /\ [][QueueStep]_vars

\* Both queues were full and have taken two more entries.
C14_Witness ==
    /\ "coding|mid" \in DOMAIN zones
    /\ "coding|mid" \in DOMAIN capacity
    /\ LET sel == zones["coding|mid"].selections
           recent == capacity["coding|mid"].recentSessions
       IN  /\ Len(sel) = 10 /\ sel[1] = 20 /\ sel[9] = 30 /\ sel[10] = 30
           /\ Len(recent) = 10 /\ ~recent[1].completed
           /\ recent[9].completed /\ recent[10].completed

\* C15: every zone record, whether a recommendation or an observation created
\* it, has confidence = min(1, |selections| / 5).
C15_ConfidenceOfSelections ==
    \A k \in DOMAIN zones :
        5 * zones[k].confidence = Unit * Min2(5, Len(zones[k].selections))

\* A record created by a recommendation holds no selection yet, and the
\* record of an observed context holds three.
C15_Witness ==
    /\ "coding|high" \in DOMAIN zones
    /\ zones["coding|high"].selections = <<>>
    /\ "coding|mid" \in DOMAIN zones
    /\ Len(zones["coding|mid"].selections) = 3
    /\ rec.op = "updateZoneData"

otherZone(zone) == IF zone = "short" THEN "long" ELSE "short"

ZoneStep ==
    rec'.op = "updateZoneData"
       => LET k == rec'.arg.contextKey
              from == rec'.out.from
              sel == zones'[k].selections
              sum5 == SumSeq(SubSeq(sel, Len(sel) - 4, Len(sel)))
              changes == /\ Len(sel) >= 5
                         /\ \/ from = "short" /\ sum5 >= 5 * 30
                            \/ from = "long" /\ sum5 <= 5 * 25
          IN  zones'[k].zone = IF changes THEN otherZone(from) ELSE from

RecommendStep ==
    (rec'.op = "recommendFocus" /\ rec'.arg.contextKey \in DOMAIN zones)
       => rec'.out.actions = ZONE_ACTIONS(zones[rec'.arg.contextKey].zone)

-----------------------------------------------------------------------------
(* updateModel and calculateReward called with every kind of input: the     *)
(* rewards completeSession computes and the values a caller can pass.       *)

\* Calls made after the initial state.
MaxModelCalls == 2

\* Rewards updateModel is called with: nothing, not a number, the
\* infinities, the rejection penalty, and finite rewards in (0, 1].
Rewards == {0, NaN, Infinity, 0 - Infinity, REJECTION_PENALTY, 300, 600, Unit}

UpdatedArms == {25, 30}

\* Minutes focused and minutes selected that calculateReward is given.
FocusedMinutes == {0, 10, 25}
TargetMinutes == {0, 25, 90}

UpdateModel ==
    /\ nOps < MaxModelCalls
    /\ \E t \in TaskTypes, e \in EnergyLevels, a \in UpdatedArms,
          r \in Rewards \cup (IF rec.op = "calculateReward" THEN {rec.out} ELSE {}) :
          /\ model' = updateModel(model, createContextKey(t, e), a, r)
          /\ rec' = [op |-> "updateModel",
                     arg |-> [contextKey |-> createContextKey(t, e), action |-> a,
                              reward |-> r],
                     out |-> <<>>]
    /\ nOps' = nOps + 1
    /\ UNCHANGED <<zones, capacity, sessions, timer, tasks, hist>>

CalculateReward ==
    /\ nOps < MaxModelCalls
    /\ \E sessionCompleted \in BOOLEAN, acceptedRecommendation \in BOOLEAN,
          focusedUntilSkipped \in FocusedMinutes, userSelectedDuration \in TargetMinutes,
          recommendedDuration \in RecommendedMinutes,
          skipReason \in {"skippedFocus", "skippedBreak", "none"} :
          rec' = [op |-> "calculateReward",
                  arg |-> [sessionCompleted |-> sessionCompleted,
                           acceptedRecommendation |-> acceptedRecommendation,
                           focusedUntilSkipped |-> focusedUntilSkipped,
                           userSelectedDuration |-> userSelectedDuration,
                           recommendedDuration |-> recommendedDuration,
                           skipReason |-> skipReason],
                  out |-> calculateReward(sessionCompleted, acceptedRecommendation,
                                          focusedUntilSkipped, userSelectedDuration,
                                          recommendedDuration, skipReason)]
    /\ nOps' = nOps + 1
    /\ UNCHANGED <<model, zones, capacity, sessions, timer, tasks, hist>>

NextModel ==
    \/ UpdateModel
    \/ CalculateReward

SpecModel == Init /\ [][NextModel]_vars

\* C18: updateModel(C, a, r) with r exactly 0 or r not finite (NaN, +Infinity,
\* -Infinity) writes nothing: the model table is as it was.
C18_NoWriteForInvalidReward ==
    [][(rec'.op = "updateModel"
          /\ rec'.arg.reward \in {0, NaN, Infinity, 0 - Infinity})
          => model' = model]_vars

\* C19: for a finite r in (0, 1], updateModel(C, a, r) followed by a read
\* gives alpha + r and beta + (1 - r) for arm a, from the prior (1.0, 1.5)
\* when the arm had no posterior, and changes no other posterior.
C19_UpdateAddsReward ==
    [][(rec'.op = "updateModel" /\ rec'.arg.reward \in 1..Unit)
          => LET k == rec'.arg.contextKey
                 a == rec'.arg.action
                 r == rec'.arg.reward
                 old == posteriorOf(model, k, a)
             IN  /\ posteriorOf(model', k, a)
                       = [alpha |-> old.alpha + r, beta |-> old.beta + (Unit - r)]
                 /\ OthersUnchanged(model, model', k, a)]_vars

\* An arm with earlier observations was updated with a reward of 0.6, next
\* to posteriors of other arms and contexts.
C19_Witness ==
    /\ rec.op = "updateModel"
    /\ rec.arg.reward = 600
    /\ LET p == posteriorOf(model, rec.arg.contextKey, rec.arg.action)
       IN  p.alpha + p.beta >= DEFAULT_ALPHA + DEFAULT_BETA + 2 * Unit
    /\ Cardinality(DOMAIN model) >= 2
    /\ Cardinality(DOMAIN model[rec.arg.contextKey]) >= 2

\* C20: calculateReward returns a finite value in [0, 1] for every input, a
\* target of 0 minutes included.
C20_RewardInUnitInterval ==
    rec.op = "calculateReward" => rec.out \in 0..Unit

-----------------------------------------------------------------------------
(* adjustForCapacity and getBreakActionsForFocus applied to their inputs    *)

\* The longest focus duration getBreakActionsForFocus is applied to.
MaxFocus == 75

\* Sessions the probed capacity statistics are made of.
ProbeSessions ==
    CapacitySessions
        \cup {[selectedDuration |-> 40, actualFocusTime |-> 30, completed |-> FALSE]}

\* The capacity table after the sessions of s were recorded at contextKey, one
\* updateCapacityStats call each.
RECURSIVE AfterSessionList(_, _, _)
AfterSessionList(c, contextKey, s) ==
    IF s = <<>> THEN c
    ELSE AfterSessionList(updateCapacityStats(c, contextKey, Head(s).selectedDuration,
                                              Head(s).actualFocusTime, Head(s).completed),
                          contextKey, Tail(s))

FullSession == [selectedDuration |-> 30, actualFocusTime |-> 30, completed |-> TRUE]
CutSession == [selectedDuration |-> 30, actualFocusTime |-> 10, completed |-> FALSE]

\* Longer windows: six sessions of seven completed with the skipped one last,
\* first and third, and three completed sessions followed by three skipped.
LongWindows ==
    {<<FullSession, FullSession, FullSession, FullSession, FullSession, FullSession,
       CutSession>>,
     <<CutSession, FullSession, FullSession, FullSession, FullSession, FullSession,
       FullSession>>,
     <<FullSession, FullSession, CutSession, FullSession, FullSession, FullSession,
       FullSession>>,
     <<FullSession, FullSession, FullSession, CutSession, CutSession, CutSession>>}

\* Capacity statistics as updateCapacityStats leaves them: after every window
\* of up to 3 sessions and after the longer windows; the statistics of a
\* context without a record among them.
CapacityProbes ==
    {getCapacityStats(AfterSessionList(EmptyTable, "coding|low", w), "coding|low")
        : w \in UNION {[1..n -> ProbeSessions] : n \in 0..3} \cup LongWindows}

InitPure ==
    /\ model = EmptyTable
    /\ zones = EmptyTable
    /\ capacity = EmptyTable
    /\ sessions = 0
    /\ rec = NoResult
    /\ nOps = 0
    /\ timer = IdleTimer
    /\ tasks = EmptyTable
    /\ hist = <<>>

AdjustForCapacity ==
    /\ \E modelRec \in ZONE_ACTIONS("short") \cup ZONE_ACTIONS("long"),
          stats \in CapacityProbes, energyLevel \in EnergyLevels :
          rec' = [op |-> "adjustForCapacity",
                  arg |-> [modelRec |-> modelRec, stats |-> stats,
                           energyLevel |-> energyLevel],
                  out |-> adjustForCapacity(modelRec, stats, energyLevel)]
    /\ UNCHANGED <<model, zones, capacity, sessions, nOps, timer, tasks, hist>>

GetBreakActionsForFocus ==
    /\ \E focusDuration \in 0..MaxFocus :
          rec' = [op |-> "getBreakActionsForFocus", arg |-> focusDuration,
                  out |-> getBreakActionsList(focusDuration)]
    /\ UNCHANGED <<model, zones, capacity, sessions, nOps, timer, tasks, hist>>

NextPure ==
    \/ AdjustForCapacity
    \/ GetBreakActionsForFocus

SpecPure == InitPure /\ [][NextPure]_vars

\* C23: for a low-energy context adjustForCapacity never returns more than
\* the model's recommendation, whatever the capacity statistics.
C23_LowEnergyNeverLonger ==
    (rec.op = "adjustForCapacity" /\ rec.arg.energyLevel = "low")
        => rec.out <= rec.arg.modelRec

\* C25: getBreakActionsForFocus returns exactly the elements of
\* [5, 10, 15, 20] that are <= max(5, floor(focus / 3)), in ascending order,
\* and always 5 among them: 25 -> [5], 30 -> [5, 10], 60 -> [5, 10, 15, 20].
C25_PermittedBreaks ==
    rec.op = "getBreakActionsForFocus"
        => LET out == rec.out
               most == IF rec.arg \div 3 > 5 THEN rec.arg \div 3 ELSE 5
           IN  /\ {out[i] : i \in DOMAIN out} = {a \in {5, 10, 15, 20} : a <= most}
               /\ \A i, j \in DOMAIN out : i < j => out[i] < out[j]
               /\ out # <<>> /\ out[1] = 5
               /\ rec.arg = 25 => out = <<5>>
               /\ rec.arg = 30 => out = <<5, 10>>
               /\ rec.arg = 60 => out = <<5, 10, 15, 20>>

\* The break arms of a 45-minute focus session: the first three.
C25_Witness ==
    /\ rec.op = "getBreakActionsForFocus"
    /\ rec.arg = 45
    /\ rec.out = <<5, 10, 15>>

-----------------------------------------------------------------------------
(* completeSession on its three outcomes, from an empty storage and from a  *)
(* short zone one selection before its transition                           *)

\* Outcomes observed after the initial state.
MaxOutcomes == 2

OutcomeEnergies == {"low", "mid"}
OutcomeMinutes == {25, 30, 60}

\* Seconds focused: the whole duration unless the focus was skipped.
FocusedSecondsOf(type, selected) ==
    IF type = "skippedFocus" THEN SkippedSeconds ELSE {60 * selected}

\* Seconds of break chosen: none when the break was skipped.
BreakSecondsOf(type) ==
    IF type = "completed" THEN {300, 600}
    ELSE IF type = "skippedBreak" THEN {0} ELSE {300}

\* What the timer store passes to completeSession, as in OutcomeParams, with
\* three selected durations and two breaks.
OutcomeInputs ==
    {p \in [type : CompletionTypes, taskType : TaskTypes, energyLevel : OutcomeEnergies,
            recommendedFocusDuration : RecommendedMinutes,
            userAcceptedRecommendation : BOOLEAN,
            originalFocusDuration : {60 * m : m \in OutcomeMinutes},
            selectedBreakDuration : {0, 300, 600},
            focusedTime : SkippedSeconds \cup {60 * m : m \in OutcomeMinutes}] :
        /\ p.focusedTime
              \in FocusedSecondsOf(p.type, secondsToMinutes(p.originalFocusDuration))
        /\ p.selectedBreakDuration \in BreakSecondsOf(p.type)}

OutcomeSeeds ==
    {<<>>,
     \* four full 30-minute sessions at mid energy: a short zone
     <<Outcome("completed", "mid", 30, 1800), Outcome("completed", "mid", 30, 1800),
       Outcome("completed", "mid", 30, 1800), Outcome("completed", "mid", 30, 1800)>>}

InitOutcome ==
    /\ \E h \in OutcomeSeeds :
          LET st == AfterHistory(StorageState, h)
          IN  /\ model = st.model
              /\ zones = st.zones
              /\ capacity = st.capacity
              /\ sessions = st.sessions
    /\ rec = NoResult
    /\ nOps = 0
    /\ timer = IdleTimer
    /\ tasks = EmptyTable
    /\ hist = <<>>

CompleteOutcome ==
    /\ nOps < MaxOutcomes
    /\ \E p \in OutcomeInputs :
          \E reward \in rewardsOf(p, capacity) :
                LET st == completeSession(model, zones, capacity, sessions, p, reward)
                IN  /\ model' = st.model
                    /\ zones' = st.zones
                    /\ capacity' = st.capacity
                    /\ sessions' = st.sessions
                    /\ rec' = [op |-> "completeSession", arg |-> p,
                               out |-> [reward |-> reward]]
    /\ nOps' = nOps + 1
    /\ UNCHANGED <<timer, tasks, hist>>

NextOutcome == CompleteOutcome

SpecOutcome == InitOutcome /\ [][NextOutcome]_vars

\* The context of the outcome just observed, its selected minutes and its
\* chosen break minutes.
outcomeKey == rec'.arg.taskType \o "|" \o rec'.arg.energyLevel
outcomeBreakKey == rec'.arg.taskType \o "-break|" \o rec'.arg.energyLevel
outcomeSelected == rec'.arg.originalFocusDuration \div 60
outcomeBreak == rec'.arg.selectedBreakDuration \div 60

\* params with reward added to alpha and 1 - reward to beta.
Rewarded(params, reward) ==
    [alpha |-> params.alpha + reward, beta |-> params.beta + (Unit - reward)]

selectionsOf(z, k) == IF k \in DOMAIN z THEN z[k].selections ELSE <<>>

C27_SkippedFocusOnlyCapacity ==
    [][(rec'.op = "completeSession" /\ rec'.arg.type = "skippedFocus"
           /\ rec'.arg.focusedTime >= 60)
          => /\ model' = model
             /\ zones' = zones
             /\ outcomeKey \in DOMAIN capacity'
             /\ Pushed(getCapacityStats(capacity, outcomeKey).recentSessions,
                       capacity'[outcomeKey].recentSessions,
                       [selectedDuration |-> outcomeSelected,
                        actualFocusTime |-> rec'.arg.focusedTime \div 60,
                        completed |-> FALSE])
             /\ \A k \in DOMAIN capacity' \ {outcomeKey} :
                   k \in DOMAIN capacity /\ capacity'[k] = capacity[k]]_vars

\* Ten minutes of a 30-minute session, skipped, in a context that has a model
\* and a zone.
C27_Witness ==
    /\ rec.op = "completeSession"
    /\ rec.arg.type = "skippedFocus"
    /\ rec.arg.focusedTime = 600
    /\ rec.arg.originalFocusDuration = 1800
    /\ rec.arg.energyLevel = "mid"
    /\ "coding|mid" \in DOMAIN model
    /\ "coding|mid" \in DOMAIN zones
    /\ Len(capacity["coding|mid"].recentSessions) >= 2

\* C28: every outcome that is observed (completed, skippedFocus or
\* skippedBreak, not dropped as too short) appends exactly one record to the
\* capacity recentSessions of its context.
C28_EveryOutcomeRecordsCapacity ==
    [][(rec'.op = "completeSession" /\ sessions' # sessions)
          => /\ outcomeKey \in DOMAIN capacity'
             /\ LET old == getCapacityStats(capacity, outcomeKey).recentSessions
                    new == capacity'[outcomeKey].recentSessions
                IN  /\ Len(new) = (IF Len(old) < 10 THEN Len(old) + 1 ELSE 10)
                    /\ SubSeq(new, 1, Len(new) - 1)
                          = (IF Len(old) < 10 THEN old ELSE Tail(old))]_vars

\* The arms of the zone the context was in when the session was completed.
armsCompletedIn ==
    ZONE_ACTIONS(zoneBefore(zones, outcomeKey, outcomeSelected))

\* C29: a completed outcome with final reward >= 0.80 writes one extra update
\* of weight 0.30 * reward to the smallest arm above the completed arm among
\* the arms of the zone the session was completed in; with a lower reward, or
\* when the completed arm is the largest arm of that zone, no focus posterior
\* other than that of the completed arm changes.
C29_SpilloverWithinZone ==
    [][(rec'.op = "completeSession" /\ rec'.arg.type = "completed")
          => LET above == {a \in armsCompletedIn : a > outcomeSelected}
                 next == CHOOSE a \in above : \A x \in above : a <= x
                 spills == rec'.out.reward >= 800 /\ above # {}
                 arms == (IF outcomeKey \in DOMAIN model
                          THEN DOMAIN model[outcomeKey] ELSE {})
                            \cup DOMAIN model'[outcomeKey]
             IN  \A a \in arms \ {outcomeSelected} :
                    posteriorOf(model', outcomeKey, a)
                       = (IF spills /\ a = next
                          THEN Rewarded(posteriorOf(model, outcomeKey, a),
                                        (300 * rec'.out.reward) \div 1000)
                          ELSE posteriorOf(model, outcomeKey, a))]_vars

\* C30: the spillover of a completed outcome never lowers the posterior mean
\* alpha / (alpha + beta) of the arm it is applied to.
C30_SpilloverRaisesMean ==
    [][(rec'.op = "completeSession" /\ rec'.arg.type = "completed")
          => \A a \in DOMAIN model'[outcomeKey] \ {outcomeSelected} :
                LET old == posteriorOf(model, outcomeKey, a)
                    new == model'[outcomeKey][a]
                IN  new.alpha * (old.alpha + old.beta)
                       >= old.alpha * (new.alpha + new.beta)]_vars

\* The zone a first reference with this initial duration and energy level is
\* to give.
firstZone(initial, energyLevel) ==
    IF initial <= 25 THEN "short"
    ELSE IF initial >= 35 THEN "long"
    ELSE IF energyLevel = "low" THEN "short" ELSE "long"

\* C31: the zone record created by the first operation that references a
\* context (a recommendation with its heuristic, an observed outcome with its
\* selection, getBestAction with 25) has zone short for an initial value
\* <= 25, long for >= 35, and for 26..34 short at low energy, long otherwise.
C31_FirstReferenceZone ==
    [][rec'.op \in {"completeSession", "recommendFocus", "recommendBreak"}
          => \A k \in DOMAIN zones' \ DOMAIN zones :
                zones'[k].zone
                   = firstZone(IF rec'.op = "completeSession" THEN outcomeSelected
                               ELSE IF rec'.op = "recommendFocus" THEN rec'.arg.heuristic
                               ELSE 25,
                               rec'.arg.energyLevel)]_vars

\* The reward of the formula: base + acceptance bonus - over-length penalty,
\* clamped to [0, 1], in thousandths; a is the argument record of the call.
formulaReward(a) ==
    LET target == IF a.acceptedRecommendation THEN a.recommendedDuration
                  ELSE a.userSelectedDuration
        scaled(mult) == IF a.focusedUntilSkipped >= target THEN mult
                        ELSE (mult * a.focusedUntilSkipped) \div target
        base == IF a.skipReason = "skippedFocus" THEN scaled(400)
                ELSE IF a.skipReason = "skippedBreak" THEN 300 + scaled(300)
                ELSE IF a.sessionCompleted THEN 700 + scaled(300)
                ELSE 0
        bonus == IF a.acceptedRecommendation THEN 150 ELSE 0
        over == IF target > 60
                THEN (IF target - 60 >= 60 THEN 100 ELSE (100 * (target - 60)) \div 60)
                ELSE 0
        sum == base + bonus - over
    IN  IF sum < 0 THEN 0 ELSE IF sum > 1000 THEN 1000 ELSE sum

\* C32: for a target above 0 minutes calculateReward equals the clamp to
\* [0, 1] of base + 0.15 (if the recommendation was accepted) - over-length
\* penalty, the bonus being added on every branch, the branch with base 0
\* included.
C32_RewardFormula ==
    (rec.op = "calculateReward"
        /\ (IF rec.arg.acceptedRecommendation THEN rec.arg.recommendedDuration
            ELSE rec.arg.userSelectedDuration) > 0)
        => rec.out = formulaReward(rec.arg)

-----------------------------------------------------------------------------
(* The source label of a focus recommendation                               *)

\* C33: off the heuristic path, recommendFocus labels its result capacity
\* exactly when adjustForCapacity returned a value other than the sampled
\* arm; otherwise learned exactly when N(C) >= 5, and blended when N(C) < 5.
C33_SourceLabel ==
    [][(rec'.op = "recommendFocus" /\ rec'.out.source # "heuristic")
          => LET k == rec'.arg.taskType \o "|" \o rec'.arg.energyLevel
                 seen == getTotalObservations(model, k)
                 adjusted == adjustForCapacity(rec'.out.modelRec,
                                               getCapacityStats(capacity, k),
                                               rec'.arg.energyLevel)
                 changed == adjusted # rec'.out.modelRec
             IN  /\ rec'.out.source \in {"capacity", "learned", "blended"}
                 /\ rec'.out.source = "capacity" <=> changed
                 /\ rec'.out.source = "learned" <=> (~changed /\ seen >= 5000)
                 /\ rec'.out.source = "blended" <=> (~changed /\ seen < 5000)]_vars

\* A recommendation labelled capacity in a context with at least 5
\* observations.
C33_Witness ==
    /\ rec.op = "recommendFocus"
    /\ rec.out.source = "capacity"
    /\ rec.out.capacityAdjusted # rec.out.modelRec
    /\ rec.out.totalObs >= 5 * Unit

\* Recommendations labelled learned and blended.
C33_WitnessLearned ==
    /\ rec.op = "recommendFocus"
    /\ rec.out.source = "learned"
    /\ rec.out.totalObs >= 5 * Unit

C33_WitnessBlended ==
    /\ rec.op = "recommendFocus"
    /\ rec.out.source = "blended"
    /\ rec.out.totalObs < 5 * Unit

-----------------------------------------------------------------------------
(* The decision table of adjustForCapacity                                  *)

\* averageCapacity rounded to the nearest multiple of 5 (halves upward).
roundedCapacity(stats) ==
    5 * ((2 * stats.averageCapacity.num + 5 * stats.averageCapacity.den)
            \div (10 * stats.averageCapacity.den))

\* completionRate >= percent / 100.
rateAtLeast(stats, percent) ==
    100 * stats.completionRate.num >= percent * stats.completionRate.den

C34_WitnessMid ==
    /\ rec.op = "adjustForCapacity"
    /\ rec.arg.energyLevel = "mid"
    /\ rateAtLeast(rec.arg.stats, 85) /\ ~rateAtLeast(rec.arg.stats, 95)
    /\ rec.out = rec.arg.modelRec

C34_WitnessDeclining ==
    /\ rec.op = "adjustForCapacity"
    /\ rec.arg.energyLevel = "high"
    /\ rateAtLeast(rec.arg.stats, 85)
    /\ rec.arg.stats.trend = "declining"
    /\ rec.out = rec.arg.modelRec

C34_WitnessStruggling ==
    /\ rec.op = "adjustForCapacity"
    /\ Len(rec.arg.stats.recentSessions) >= 3
    /\ ~rateAtLeast(rec.arg.stats, 50)
    /\ rec.out # rec.arg.modelRec

-----------------------------------------------------------------------------
(* The trend of the capacity window                                         *)

\* The classification of the least-squares slope of actual / selected over
\* all the sessions of window, on the indices 0..n-1; stable under 3 sessions.
wholeWindowTrend(window) ==
    IF Len(window) < 3 THEN "stable"
    ELSE
      LET n == Len(window)
          y == [i \in 1..n |-> (window[i].actualFocusTime * RatioScale)
                                  \div window[i].selectedDuration]
          sx == SumSeq([i \in 1..n |-> i - 1])
          sy == SumSeq(y)
          sxy == SumSeq([i \in 1..n |-> (i - 1) * y[i]])
          sxx == SumSeq([i \in 1..n |-> (i - 1) * (i - 1)])
          num == n * sxy - sx * sy
          den == n * sxx - sx * sx
      IN  IF 20 * num > den * RatioScale THEN "growing"
          ELSE IF 20 * num < 0 - den * RatioScale THEN "declining"
          ELSE "stable"

\* C35: the stored trend of every context is the classification (slope > 0.05
\* growing, < -0.05 declining, else stable) of the least-squares slope of
\* actual / selected over the entire stored window, and stable for a window
\* of fewer than 3 sessions.
C35_TrendOfWholeWindow ==
    \A k \in DOMAIN capacity :
        capacity[k].trend = wholeWindowTrend(capacity[k].recentSessions)

-----------------------------------------------------------------------------
(* updateZoneData over sequences of selections the focus options offer      *)

\* Selections recorded after the initial state.
MaxSelections == 7

\* Durations of FOCUS_OPTIONS the user selects.
SelectionChoices == {20, 25, 60}

InitSelections ==
    /\ model = EmptyTable
    /\ zones = EmptyTable
    /\ capacity = EmptyTable
    /\ sessions = 0
    /\ rec = NoResult
    /\ nOps = 0
    /\ timer = IdleTimer
    /\ tasks = EmptyTable
    /\ hist = <<>>

RecordSelection ==
    /\ nOps < MaxSelections
    /\ \E k \in ZoneContexts, d \in SelectionChoices :
          /\ zones' = updateZoneData(zones, k, d)
          /\ rec' = [op |-> "updateZoneData",
                     arg |-> [contextKey |-> k, selectedDuration |-> d],
                     out |-> [from |-> zoneBefore(zones, k, d)]]
    /\ nOps' = nOps + 1
    /\ UNCHANGED <<model, capacity, sessions, timer, tasks, hist>>

NextSelections == RecordSelection

SpecSelections == InitSelections /\ [][NextSelections]_vars

\* C36: the zone of a context never changes on two consecutive updateZoneData
\* calls: a transition is never undone by the very next recorded selection.
C36_NoOscillation ==
    [][(/\ rec.op = "updateZoneData"
        /\ rec'.op = "updateZoneData"
        /\ rec'.arg.contextKey = rec.arg.contextKey
        /\ zones[rec.arg.contextKey].zone # rec.out.from)
          => zones'[rec.arg.contextKey].zone = zones[rec.arg.contextKey].zone]_vars

-----------------------------------------------------------------------------
(* Observation counts over sequences of operations                          *)

\* N(C): the sum over the arms of C of alpha + beta - 2.5, in thousandths.
observationsOf(m, k) ==
    IF k \in DOMAIN m
    THEN SumSeq([i \in 1..60 |->
                    IF i \in DOMAIN m[k]
                    THEN m[k][i].alpha + m[k][i].beta - 2500 ELSE 0])
           + (IF 0 \in DOMAIN m[k] THEN m[k][0].alpha + m[k][0].beta - 2500 ELSE 0)
    ELSE 0

CountsKept ==
    rec'.op \in {"recommendFocus", "recommendBreak", "completeSession",
                 "penalizeRejection"}
       => \A k \in DOMAIN model :
             k \in DOMAIN model' /\ observationsOf(model', k) >= observationsOf(model, k)

StaysLearned ==
    (/\ rec.op = "recommendFocus" /\ rec.out.source = "learned"
     /\ rec'.op = "recommendFocus"
     /\ rec'.arg.taskType = rec.arg.taskType
     /\ rec'.arg.energyLevel = rec.arg.energyLevel)
       => rec'.out.source \in {"learned", "capacity"}

\* C37: N(C) of every context never decreases under recommend and observe
\* operations run one after another; once recommendFocus has returned source
\* learned for a context, a later recommendFocus for it returns learned or
\* capacity, never heuristic or blended.
C37_CountsNeverDecrease == [][CountsKept /\ StaysLearned]_vars

\* A second recommendation labelled learned, in a context that had more than
\* 5 observations from the start and whose arms all have a posterior.
C37_Witness ==
    /\ nOps = 2
    /\ sessions = 3
    /\ rec.op = "recommendFocus"
    /\ rec.out.source = "learned"
    /\ observationsOf(model, rec.arg.taskType \o "|" \o rec.arg.energyLevel) >= 5000
    /\ rec.out.actions \subseteq DOMAIN model[rec.arg.taskType \o "|" \o rec.arg.energyLevel]

-----------------------------------------------------------------------------
(* Observation counts of single updateModel calls                           *)

\* n(a) = alpha + beta - 2.5 of a stored posterior, in thousandths.
countOf(params) == params.alpha + params.beta - 2500

WholeCounts ==
    \A k \in DOMAIN model : \A a \in DOMAIN model[k] :
        countOf(model[k][a]) >= 0 /\ countOf(model[k][a]) % 1000 = 0

CountStep ==
    rec'.op = "updateModel"
       => LET k == rec'.arg.contextKey
              a == rec'.arg.action
          IN  IF rec'.arg.reward \in {0, NaN}
              THEN model' = model
              ELSE /\ countOf(posteriorOf(model', k, a))
                         = countOf(posteriorOf(model, k, a)) + 1000
                   /\ OthersUnchanged(model, model', k, a)
                   /\ observationsOf(model', k) = observationsOf(model, k) + 1000

\* C38: every updateModel call that passes the guard (a reward other than 0
\* and NaN, the spillover weight and the rejection penalty included) raises
\* alpha + beta of exactly one arm by exactly 1, so that n(a) is always a
\* non-negative whole number and N(C) grows by 1 with every effective update
\* of the context.
C38_EachUpdateCountsOne == []WholeCounts /\ [][CountStep]_vars

\* The rejection penalty applied to an arm that already has observations.
C38_Witness ==
    /\ rec.op = "updateModel"
    /\ rec.arg.reward = REJECTION_PENALTY
    /\ countOf(posteriorOf(model, rec.arg.contextKey, rec.arg.action)) >= 2000

-----------------------------------------------------------------------------
(* The model table after a failed read                                      *)

\* A read of the model table failed in the call just made.
modelReadFailed ==
    \/ rec'.op = "updateModel" /\ rec'.arg.faults.modelRead
    \/ rec'.op = "recommendFocus"
          /\ (rec'.arg.faults.modelRead \/ rec'.arg.faults.bestModelRead)

\* C39: a failed read of the model table during updateModel or getBestAction
\* destroys nothing that was persisted: after the operation the table still
\* holds every posterior of every other context as it was stored before.
C39_FailedReadKeepsOthers ==
    [][modelReadFailed
          => \A k \in DOMAIN model
                   \ {rec'.arg.taskType \o "|" \o rec'.arg.energyLevel} :
                k \in DOMAIN model' /\ model'[k] = model[k]]_vars

====
